---- MODULE Spec2Model ----
(***************************************************************************)
(* Custody schedule engine of relay-coparent (src/src/schedule.ts).        *)
(*                                                                         *)
(* A JavaScript Date is modelled by its local calendar fields              *)
(*   [day |-> days since 1970-01-01 (local calendar day),                  *)
(*    min |-> minute of that local day],                                   *)
(* and getTime() by the UTC instant in minutes, which depends on the time  *)
(* zone of the process (variable tz).  Calendar days are integers; the     *)
(* proleptic Gregorian calendar is computed arithmetically.                *)
(***************************************************************************)
EXTENDS Integers, Sequences, FiniteSets, TLC

VARIABLES
    tz,               \* time zone of the process (fixed for a run)
    diskSchedule,     \* content of config/schedule.json, or Missing
    diskSchool,       \* content of config/school-calendar.json, or Missing
    config,           \* module variable `config` (Null until loaded)
    schoolCalConfig,  \* module variable `schoolCalConfig` (Undefined / Null / calendar)
    date,             \* the Date argument handed to the queries
    ret               \* outcome of the last call into the module

vars == <<tz, diskSchedule, diskSchool, config, schoolCalConfig, date, ret>>

\* null, undefined and "no such file", as values distinct from every document.
Null == [null |-> TRUE]
Undefined == [undefined |-> TRUE]
Missing == [missing |-> TRUE]

-----------------------------------------------------------------------------
(* Calendar arithmetic behind the JavaScript Date object *)

MinutesPerDay == 1440

\* Math.round(n / d) for d > 0: the nearest integer, halves rounded up.
MathRound(n, d) == (2 * n + d) \div (2 * d)

\* JavaScript remainder a % b for b > 0: the sign follows the dividend.
JsRem(a, b) == IF a >= 0 THEN a % b ELSE -((-a) % b)

\* Day number of the civil date y-m-d (m in 1..12), days since 1970-01-01: the
\* year counted from March (yy), split into its 400-year era and year of era,
\* and the day of that year from the month counted from March (mp).
daysFromEra(era, yoe, doy) ==
    era * 146097 + (yoe * 365 + yoe \div 4 - yoe \div 100 + doy) - 719468

daysFromMarch(yy, mp, d) ==
    daysFromEra(yy \div 400, yy - (yy \div 400) * 400, (153 * mp + 2) \div 5 + d - 1)

DaysFromCivil(y, m, d) ==
    daysFromMarch(IF m <= 2 THEN y - 1 ELSE y, IF m > 2 THEN m - 3 ELSE m + 9, d)

\* Civil date [y, m, d] of a day number: the inverse, by era, day of era (doe),
\* year of era (yoe), day of year (doy) and month from March (mp).
civilFromMonth(y, m, d) == [y |-> IF m <= 2 THEN y + 1 ELSE y, m |-> m, d |-> d]

civilFromMarch(y, doy, mp) ==
    civilFromMonth(y, IF mp < 10 THEN mp + 3 ELSE mp - 9,
                   doy - (153 * mp + 2) \div 5 + 1)

civilFromDoy(y, doy) == civilFromMarch(y, doy, (5 * doy + 2) \div 153)

civilFromYoe(era, doe, yoe) ==
    civilFromDoy(yoe + era * 400, doe - (365 * yoe + yoe \div 4 - yoe \div 100))

civilFromDoe(era, doe) ==
    civilFromYoe(era, doe,
                 (doe - doe \div 1460 + doe \div 36524 - doe \div 146096) \div 365)

civilFromEra(zz, era) == civilFromDoe(era, zz - era * 146097)

CivilFromDays(z) == civilFromEra(z + 719468, (z + 719468) \div 146097)

\* new Date(year, month, dayOfMonth): local midnight; month is 0-based and both
\* month and day of month overflow into the neighbouring months.
NewDate(year, month, dom) ==
    [day |-> DaysFromCivil(year + month \div 12, (month % 12) + 1, 1) + dom - 1,
     min |-> 0]

\* Years before and after the reference year that the queries may reach.
YearsRange == 20

\* The reference date of the alternating weekends used throughout: 2024-01-05,
\* the Friday of the documented example.
ReferenceFriday == <<2024, 1, 5>>

TableYears == (ReferenceFriday[1] - YearsRange - 2) .. (ReferenceFriday[1] + YearsRange + 2)

\* CivilFromDays tabulated over the days of TableYears (evaluated once).
civilOf ==
    [z \in DaysFromCivil(ReferenceFriday[1] - YearsRange - 2, 1, 1) ..
           DaysFromCivil(ReferenceFriday[1] + YearsRange + 2, 12, 31) |-> CivilFromDays(z)]

getFullYear(d) == civilOf[d.day].y
getMonth(d) == civilOf[d.day].m - 1
getDate(d) == civilOf[d.day].d
\* Date.prototype.getDay: 0 = Sunday .. 6 = Saturday (1970-01-01 was a Thursday).
getDay(d) == (d.day + 4) % 7

-----------------------------------------------------------------------------
(* Time zone of the process *)

TimeZones == {"America/Denver", "UTC", "Asia/Tokyo"}

\* Standard UTC offset in minutes.
StdOffset(zone) ==
    CASE zone = "America/Denver" -> -420
      [] zone = "UTC" -> 0
      [] zone = "Asia/Tokyo" -> 540

\* First day number >= from whose weekday is wd.
FirstOnOrAfter(from, wd) == from + ((wd - ((from + 4) % 7) + 7) % 7)

\* Daylight saving time of America/Denver on each local day, as the minutes
\* [from, to) of the day it is in force: from 02:00 of the second Sunday of March
\* to 02:00 (daylight time) of the first Sunday of November (evaluated once).
dstMinutes ==
    [z \in DaysFromCivil(ReferenceFriday[1] - YearsRange - 2, 1, 1) ..
           DaysFromCivil(ReferenceFriday[1] + YearsRange + 2, 12, 31) |->
        LET y      == CivilFromDays(z).y
            start  == FirstOnOrAfter(DaysFromCivil(y, 3, 8), 0)
            finish == FirstOnOrAfter(DaysFromCivil(y, 11, 1), 0)
        IN  IF z < start \/ z > finish THEN [from |-> MinutesPerDay, to |-> MinutesPerDay]
            ELSE [from |-> IF z = start THEN 180 ELSE 0,
                  to   |-> IF z = finish THEN 60 ELSE MinutesPerDay]]

Within(window, minute) == minute >= window.from /\ minute < window.to

\* Daylight saving time in force at local (day, minute): America/Denver only.
InDst(zone, day, minute) ==
    zone = "America/Denver" /\ Within(dstMinutes[day], minute)

\* UTC offset in minutes that applies at local (day, minute).
UtcOffset(zone, day, minute) ==
    StdOffset(zone) + (IF InDst(zone, day, minute) THEN 60 ELSE 0)

\* Date.prototype.getTime, in minutes.
getTime(d) == d.day * MinutesPerDay + d.min - UtcOffset(tz, d.day, d.min)

\* new Date("YYYY-MM-DD"): a date-only ISO string is UTC midnight of that day;
\* the result is that instant seen in the local time zone.
NewDateFromISO(iso) ==
    LET utc   == DaysFromCivil(iso[1], iso[2], iso[3]) * MinutesPerDay
        std   == utc + StdOffset(tz)
        local == IF InDst(tz, std \div MinutesPerDay, std % MinutesPerDay)
                 THEN std + 60 ELSE std
    IN  [day |-> local \div MinutesPerDay, min |-> local % MinutesPerDay]

-----------------------------------------------------------------------------
(* DAY HELPERS *)

DAYS == <<"sunday", "monday", "tuesday", "wednesday", "thursday", "friday", "saturday">>

\* String.prototype.toLowerCase on the day names a configuration may carry.
toLowerCase(name) ==
    CASE name = "Sunday" -> "sunday"
      [] name = "Monday" -> "monday"
      [] name = "Tuesday" -> "tuesday"
      [] name = "Wednesday" -> "wednesday"
      [] name = "Thursday" -> "thursday"
      [] name = "Friday" -> "friday"
      [] name = "Saturday" -> "saturday"
      [] OTHER -> name

\* DAYS.indexOf(name.toLowerCase()); -1 stands for the thrown "Invalid day name".
dayIndex(name) ==
    LET lower == toLowerCase(name)
    IN  IF \E i \in 1..Len(DAYS) : DAYS[i] = lower
        THEN (CHOOSE i \in 1..Len(DAYS) : DAYS[i] = lower) - 1
        ELSE -1

startOfDay(d) == [day |-> d.day, min |-> 0]

addDays(d, n) == [day |-> d.day + n, min |-> d.min]

parseLocalDate(iso) == NewDate(iso[1], iso[2] - 1, iso[3])

diffDays(a, b) ==
    MathRound(getTime(startOfDay(a)) - getTime(startOfDay(b)), MinutesPerDay)

-----------------------------------------------------------------------------
(* FLOATING HOLIDAY COMPUTATION (Utah) *)

\* Mutant: the offset to the first occurrence taken without `+ 7`, so that it
\* is negative when the month starts later in the week than `weekday`.
nthWeekday_NoWrap(year, month, weekday, n) ==
    LET first     == NewDate(year, month, 1)
        dayOfWeek == getDay(first)
        dom       == 1 + JsRem(weekday - dayOfWeek, 7) + (n - 1) * 7
    IN  NewDate(year, month, dom)

nthWeekday(year, month, weekday, n) ==
    LET first     == NewDate(year, month, 1)
        dayOfWeek == getDay(first)
        dom       == 1 + ((weekday - dayOfWeek + 7) % 7) + (n - 1) * 7
    IN  NewDate(year, month, dom)

\* Mutant: the distance measured forward from the last day instead of back.
lastWeekday_Forward(year, month, weekday) ==
    LET last == NewDate(year, month + 1, 0)
        diff == (weekday - getDay(last) + 7) % 7
    IN  NewDate(year, month, getDate(last) - diff)

lastWeekday(year, month, weekday) ==
    LET last == NewDate(year, month + 1, 0)
        diff == (getDay(last) - weekday + 7) % 7
    IN  NewDate(year, month, getDate(last) - diff)

\* Object.entries order of the record getUtahHolidayDates returns.
HolidayNames ==
    <<"New Year's Day", "MLK Day", "Presidents Day", "Spring Break",
      "Memorial Day", "Father's Day", "Mother's Day", "July 4th", "Pioneer Day",
      "Labor Day", "Fall Break", "Thanksgiving", "Christmas 1st half",
      "Christmas 2nd half">>

\* Mutant: both halves of Christmas put on December 24.
getUtahHolidayDates_ChristmasOnOneDay(year) ==
    <<NewDate(year, 0, 1),
      nthWeekday(year, 0, 1, 3),
      nthWeekday(year, 1, 1, 3),
      nthWeekday(year, 2, 1, 3),
      lastWeekday(year, 4, 1),
      nthWeekday(year, 5, 0, 3),
      nthWeekday(year, 4, 0, 2),
      NewDate(year, 6, 4),
      NewDate(year, 6, 24),
      nthWeekday(year, 8, 1, 1),
      nthWeekday(year, 9, 4, 3),
      nthWeekday(year, 10, 4, 4),
      NewDate(year, 11, 24),
      NewDate(year, 11, 24)>>

getUtahHolidayDates(year) ==
    <<NewDate(year, 0, 1),
      nthWeekday(year, 0, 1, 3),
      nthWeekday(year, 1, 1, 3),
      nthWeekday(year, 2, 1, 3),
      lastWeekday(year, 4, 1),
      nthWeekday(year, 5, 0, 3),
      nthWeekday(year, 4, 0, 2),
      NewDate(year, 6, 4),
      NewDate(year, 6, 24),
      nthWeekday(year, 8, 1, 1),
      nthWeekday(year, 9, 4, 3),
      nthWeekday(year, 10, 4, 4),
      NewDate(year, 11, 24),
      NewDate(year, 11, 26)>>

\* getUtahHolidayDates tabulated over TableYears (evaluated once per year).
holidayDatesOf == [y \in TableYears |-> getUtahHolidayDates(y)]

-----------------------------------------------------------------------------
(* LOAD CONFIG *)

\* Mutant: the schedule cannot be loaded without a school calendar file.
loadConfig_NeedsSchoolCalendar ==
    IF diskSchool = Missing THEN Missing
    ELSE IF config # Null THEN config
    ELSE IF diskSchedule = Missing THEN Missing
    ELSE diskSchedule

\* Mutant: every call parses the schedule file again, cache or no cache.
loadConfig_AlwaysReads ==
    IF diskSchedule = Missing THEN Missing ELSE diskSchedule

\* What loadConfig() returns: the cached configuration, else the parsed file;
\* Missing stands for the thrown "config/schedule.json not found".
loadConfig ==
    IF config # Null THEN config
    ELSE IF diskSchedule = Missing THEN Missing
    ELSE diskSchedule

\* loadConfig() gets as far as readFileSync: nothing is cached and the file
\* exists.
readsSchedule == config = Null /\ diskSchedule # Missing

\* The module variable `config` after loadConfig() has run.
configAfterLoad == IF loadConfig = Missing THEN config ELSE loadConfig

-----------------------------------------------------------------------------
(* CORE LOGIC *)

\* Mutant: the week count truncated toward zero instead of floored.
isUserWeekend_Truncating(cfg, d) ==
    LET ref  == startOfDay(NewDateFromISO(cfg.alternatingWeekends.referenceDate))
        days == diffDays(startOfDay(d), ref)
    IN  JsRem(IF days >= 0 THEN days \div 7 ELSE -((-days) \div 7), 2) = 0

isUserWeekend(cfg, d) ==
    LET ref    == startOfDay(NewDateFromISO(cfg.alternatingWeekends.referenceDate))
        target == startOfDay(d)
        days   == diffDays(target, ref)
        weeks  == days \div 7
    IN  JsRem(weeks, 2) = 0

\* Mutant: alwaysCoparent consulted before alwaysUser.
assignedParent_CoparentFirst(cfg, name, year) ==
    IF name \in cfg.holidays.alwaysCoparent THEN "coparent"
    ELSE IF name \in cfg.holidays.alwaysUser THEN "user"
    ELSE IF year % 2 = 0
    THEN (IF name \in cfg.holidays.evenYearUser THEN "user" ELSE "coparent")
    ELSE (IF name \in cfg.holidays.oddYearUser THEN "user" ELSE "coparent")

\* Mutant: the lists of the two parities exchanged.
assignedParent_ParitySwapped(cfg, name, year) ==
    IF name \in cfg.holidays.alwaysUser THEN "user"
    ELSE IF name \in cfg.holidays.alwaysCoparent THEN "coparent"
    ELSE IF year % 2 = 0
    THEN (IF name \in cfg.holidays.oddYearUser THEN "user" ELSE "coparent")
    ELSE (IF name \in cfg.holidays.evenYearUser THEN "user" ELSE "coparent")

\* The if-chain of getHolidayAssignmentsForDate that picks `parent`.
assignedParent(cfg, name, year) ==
    IF name \in cfg.holidays.alwaysUser THEN "user"
    ELSE IF name \in cfg.holidays.alwaysCoparent THEN "coparent"
    ELSE IF year % 2 = 0
    THEN (IF name \in cfg.holidays.evenYearUser THEN "user" ELSE "coparent")
    ELSE (IF name \in cfg.holidays.oddYearUser THEN "user" ELSE "coparent")

\* The results array built from the indices `hits` that passed the date test.
assignmentsAt(cfg, year, hits) ==
    [k \in 1..Len(hits) |->
        [name   |-> HolidayNames[hits[k]],
         date   |-> holidayDatesOf[year][hits[k]],
         parent |-> assignedParent(cfg, HolidayNames[hits[k]], year)]]

getHolidayAssignmentsForDate(cfg, d) ==
    LET year   == getFullYear(d)
        Hit(i) == diffDays(d, holidayDatesOf[year][i]) = 0
    IN  assignmentsAt(cfg, year, SelectSeq([i \in 1..Len(HolidayNames) |-> i], Hit))

\* Mutant: the range never wraps past Saturday.
isDayInRange_NoWrap(d, start, end) == d >= start /\ d <= end

isDayInRange(d, start, end) ==
    IF start <= end THEN d >= start /\ d <= end
    ELSE d >= start \/ d <= end

\* Mutant: the overnight days consulted before the weekend range.
regularBranch_OvernightFirst(cfg, d, dow, pickupDow, dropoffDow, overnightPickup, overnightDropoff) ==
    IF pickupDow = -1 \/ dropoffDow = -1
       \/ overnightPickup = -1 \/ overnightDropoff = -1
    THEN [threw |-> TRUE, parent |-> "throw", rule |-> "throw"]
    ELSE IF dow = overnightPickup \/ dow = overnightDropoff
    THEN [threw |-> FALSE, parent |-> cfg.weekdayOvernight.parent, rule |-> "overnight"]
    ELSE IF isDayInRange(dow, pickupDow, dropoffDow)
    THEN [threw |-> FALSE,
          parent |-> IF isUserWeekend(cfg, d) THEN "user" ELSE "coparent",
          rule   |-> "weekend"]
    ELSE [threw |-> FALSE,
          parent |-> IF cfg.weekdayOvernight.parent = "user" THEN "coparent" ELSE "user",
          rule   |-> "default"]

\* The return statement getCustodyStatus leaves by once no holiday matched.
regularBranch(cfg, d, dow, pickupDow, dropoffDow, overnightPickup, overnightDropoff) ==
    IF pickupDow = -1 \/ dropoffDow = -1
    THEN [threw |-> TRUE, parent |-> "throw", rule |-> "throw"]
    ELSE IF isDayInRange(dow, pickupDow, dropoffDow)
    THEN [threw |-> FALSE,
          parent |-> IF isUserWeekend(cfg, d) THEN "user" ELSE "coparent",
          rule   |-> "weekend"]
    ELSE IF overnightPickup = -1 \/ overnightDropoff = -1
    THEN [threw |-> TRUE, parent |-> "throw", rule |-> "throw"]
    ELSE IF dow = overnightPickup \/ dow = overnightDropoff
    THEN [threw |-> FALSE, parent |-> cfg.weekdayOvernight.parent, rule |-> "overnight"]
    ELSE [threw |-> FALSE,
          parent |-> IF cfg.weekdayOvernight.parent = "user" THEN "coparent" ELSE "user",
          rule   |-> "default"]

\* Mutant: a weekend day is settled by the weekend rule before the holidays
\* are looked at.
branchGiven_WeekendFirst(cfg, d, holidays) ==
    IF /\ dayIndex(cfg.alternatingWeekends.pickupDay) # -1
       /\ dayIndex(cfg.alternatingWeekends.dropoffDay) # -1
       /\ isDayInRange(getDay(d), dayIndex(cfg.alternatingWeekends.pickupDay),
                       dayIndex(cfg.alternatingWeekends.dropoffDay))
    THEN [threw |-> FALSE,
          parent |-> IF isUserWeekend(cfg, d) THEN "user" ELSE "coparent",
          rule   |-> "weekend"]
    ELSE IF Len(holidays) > 0
    THEN [threw |-> FALSE, parent |-> holidays[1].parent, rule |-> "holiday"]
    ELSE regularBranch(cfg, d, getDay(d),
                       dayIndex(cfg.alternatingWeekends.pickupDay),
                       dayIndex(cfg.alternatingWeekends.dropoffDay),
                       dayIndex(cfg.weekdayOvernight.pickupDay),
                       dayIndex(cfg.weekdayOvernight.dropoffDay))

\* The body of getCustodyStatus given the holidays found on d.
branchGiven(cfg, d, holidays) ==
    IF Len(holidays) > 0
    THEN [threw |-> FALSE, parent |-> holidays[1].parent, rule |-> "holiday"]
    ELSE regularBranch(cfg, d, getDay(d),
                       dayIndex(cfg.alternatingWeekends.pickupDay),
                       dayIndex(cfg.alternatingWeekends.dropoffDay),
                       dayIndex(cfg.weekdayOvernight.pickupDay),
                       dayIndex(cfg.weekdayOvernight.dropoffDay))

\* getCustodyStatus with the return statement it leaves by: parent is the value
\* returned, rule names the branch, threw tells that dayIndex threw instead.
custodyBranch(cfg, dt) ==
    branchGiven(cfg, startOfDay(dt), getHolidayAssignmentsForDate(cfg, startOfDay(dt)))

getCustodyStatus(cfg, dt) == custodyBranch(cfg, dt).parent

\* formatDate: weekday, month and day of month of the local date.
formatDate(d) ==
    [weekday |-> getDay(d), month |-> getMonth(d), day |-> getDate(d)]

\* Length of the look-ahead loop of getNextTransition.
LookAhead == 14

RECURSIVE firstDifferent(_, _, _, _)

\* Mutant: the loop ends one day early.
firstDifferent_StopsEarly(cfg, dt, current, i) ==
    IF i >= LookAhead THEN 0
    ELSE IF getCustodyStatus(cfg, addDays(dt, i)) # current THEN i
    ELSE firstDifferent(cfg, dt, current, i + 1)

\* Mutant: the loop looks four days ahead only.
firstDifferent_FourDays(cfg, dt, current, i) ==
    IF i > 4 THEN 0
    ELSE IF getCustodyStatus(cfg, addDays(dt, i)) # current THEN i
    ELSE firstDifferent(cfg, dt, current, i + 1)

\* The for loop of getNextTransition from offset i on: the first offset in
\* i..LookAhead whose status differs from `current`, 0 when the loop runs out.
firstDifferent(cfg, dt, current, i) ==
    IF i > LookAhead THEN 0
    ELSE IF getCustodyStatus(cfg, addDays(dt, i)) # current THEN i
    ELSE firstDifferent(cfg, dt, current, i + 1)

\* The return inside the loop, on the day `next` of status nextStatus.
transitionFound(next, nextStatus) ==
    IF nextStatus = "throw" THEN [threw |-> TRUE]
    ELSE [threw |-> FALSE,
          date |-> next,
          description |-> [text |-> IF nextStatus = "user"
                                    THEN "Children come to you"
                                    ELSE "Children go to co-parent",
                           on   |-> formatDate(next)]]

\* Mutant: without `|| 7`, the pickup day itself is returned.
nextWeekend_SameDay(dt, pickupDow, rem) ==
    IF pickupDow = -1 THEN [threw |-> TRUE]
    ELSE [threw |-> FALSE,
          date |-> addDays(dt, rem),
          description |-> [text |-> "Next weekend",
                           on   |-> formatDate(addDays(dt, rem))]]

\* The fallback after the loop: the next pickup day of the weekend.
nextWeekend(dt, pickupDow, rem) ==
    IF pickupDow = -1 THEN [threw |-> TRUE]
    ELSE [threw |-> FALSE,
          date |-> addDays(dt, IF rem = 0 THEN 7 ELSE rem),
          description |-> [text |-> "Next weekend",
                           on   |-> formatDate(addDays(dt, IF rem = 0 THEN 7 ELSE rem))]]

\* getNextTransition once the loop has ended at offset i (0: ran out).
transitionAt(cfg, dt, i) ==
    IF i > 0
    THEN transitionFound(addDays(dt, i), getCustodyStatus(cfg, addDays(dt, i)))
    ELSE nextWeekend(dt, dayIndex(cfg.alternatingWeekends.pickupDay),
                     (dayIndex(cfg.alternatingWeekends.pickupDay) - getDay(dt) + 7) % 7)

\* getNextTransition given the status `current` of dt.
transitionFrom(cfg, dt, current) ==
    IF current = "throw" THEN [threw |-> TRUE]
    ELSE transitionAt(cfg, dt, firstDifferent(cfg, dt, current, 1))

getNextTransition(cfg, dt) == transitionFrom(cfg, dt, getCustodyStatus(cfg, dt))

\* Array.prototype.sort by date on an array of holiday assignments: stable, so
\* entries of equal date keep their order.  Insertion of e behind its equals.
\* e inserted into the sorted `rest` behind the entries not later than it.
insertByDate(rest, e) ==
    LET pos == Cardinality({k \in 1..Len(rest) :
                               getTime(rest[k].date) <= getTime(e.date)})
    IN  SubSeq(rest, 1, pos) \o <<e>> \o SubSeq(rest, pos + 1, Len(rest))

RECURSIVE sortByDate(_)
sortByDate(seq) ==
    IF Len(seq) <= 1 THEN seq
    ELSE insertByDate(sortByDate(SubSeq(seq, 1, Len(seq) - 1)), seq[Len(seq)])

\* Mutant: the second copy of the if-chain consults the even-year list in
\* every year.
upcomingParent_EvenListOnly(cfg, name, year) ==
    IF name \in cfg.holidays.alwaysUser THEN "user"
    ELSE IF name \in cfg.holidays.alwaysCoparent THEN "coparent"
    ELSE IF name \in cfg.holidays.evenYearUser THEN "user" ELSE "coparent"

\* The if-chain of getUpcomingHolidays that picks `parent` (a second copy).
upcomingParent(cfg, name, year) ==
    IF name \in cfg.holidays.alwaysUser THEN "user"
    ELSE IF name \in cfg.holidays.alwaysCoparent THEN "coparent"
    ELSE IF year % 2 = 0
    THEN (IF name \in cfg.holidays.evenYearUser THEN "user" ELSE "coparent")
    ELSE (IF name \in cfg.holidays.oddYearUser THEN "user" ELSE "coparent")

\* The entries one pass of the year loop pushes, from the indices `kept`.
upcomingAt(cfg, year, kept) ==
    [k \in 1..Len(kept) |->
        [name   |-> HolidayNames[kept[k]],
         date   |-> holidayDatesOf[year][kept[k]],
         parent |-> upcomingParent(cfg, HolidayNames[kept[k]], year)]]

\* Mutant: a holiday on the day of the query is skipped.
upcomingOfYear_SkipsToday(cfg, d, daysAhead, year) ==
    LET Keep(i) == ~(diffDays(holidayDatesOf[year][i], d) <= 0
                     \/ diffDays(holidayDatesOf[year][i], d) > daysAhead)
    IN  upcomingAt(cfg, year, SelectSeq([i \in 1..Len(HolidayNames) |-> i], Keep))

\* One pass of the year loop of getUpcomingHolidays.
upcomingOfYear(cfg, d, daysAhead, year) ==
    LET Keep(i) == ~(diffDays(holidayDatesOf[year][i], d) < 0
                     \/ diffDays(holidayDatesOf[year][i], d) > daysAhead)
    IN  upcomingAt(cfg, year, SelectSeq([i \in 1..Len(HolidayNames) |-> i], Keep))

\* Mutant: only the year of the date is scanned.
getUpcomingHolidays_CurrentYearOnly(cfg, dt, daysAhead) ==
    sortByDate(upcomingOfYear(cfg, startOfDay(dt), daysAhead, getFullYear(dt)))

getUpcomingHolidays(cfg, dt, daysAhead) ==
    sortByDate(upcomingOfYear(cfg, startOfDay(dt), daysAhead, getFullYear(dt))
               \o upcomingOfYear(cfg, startOfDay(dt), daysAhead, getFullYear(dt) + 1))

\* The note of one line of getWeekSummary: "pickup" when the day differs from
\* the day before, else "drop-off" when it differs from the day after, else none.
weekNote(status, prevStatus, nextStatus) ==
    IF status # prevStatus THEN "pickup"
    ELSE IF status # nextStatus THEN "drop-off"
    ELSE ""

\* The seven lines of getWeekSummary from the statuses of the nine days at
\* offsets -1..7 (statuses[i + 2] is the status at offset i): the weekday, the
\* party (named through the environment) and the note.
weekLines(dt, statuses) ==
    IF \E j \in 1..9 : statuses[j] = "throw" THEN [threw |-> TRUE]
    ELSE [threw |-> FALSE,
          lines |-> [k \in 1..7 |->
                        [weekday |-> getDay(addDays(dt, k - 1)),
                         who     |-> statuses[k + 1],
                         note    |-> weekNote(statuses[k + 1], statuses[k],
                                              statuses[k + 2])]]]

\* The statuses of the days at offsets i..7 from dt, in order.
RECURSIVE statusesFrom(_, _, _)
statusesFrom(cfg, dt, i) ==
    IF i > 7 THEN <<>>
    ELSE <<getCustodyStatus(cfg, addDays(dt, i))>> \o statusesFrom(cfg, dt, i + 1)

\* The statuses getWeekSummary asks for, each computed once.
weekStatuses(cfg, dt) == {statusesFrom(cfg, dt, -1)}

getWeekSummary(cfg, dt) ==
    CHOOSE summary \in {weekLines(dt, statuses) : statuses \in weekStatuses(cfg, dt)} : TRUE

-----------------------------------------------------------------------------
(* SCHOOL CALENDAR LOADER *)

\* What loadSchoolCalendar() returns, which is also what it leaves in
\* schoolCalConfig: the cached value unless that is undefined, else null when
\* the file does not exist, else the parsed file.
loadSchoolCalendar ==
    IF schoolCalConfig # Undefined THEN schoolCalConfig
    ELSE IF diskSchool = Missing THEN Null
    ELSE diskSchool

\* loadSchoolCalendar() gets as far as readFileSync: the file has not been
\* looked for yet and exists.
readsSchool == schoolCalConfig = Undefined /\ diskSchool # Missing

-----------------------------------------------------------------------------
(* SCHOOL CALENDAR HELPERS *)

\* Mutant: every date counts as inside the school year.
isWithinSchoolYear_AnyDate(d, cal) == TRUE

\* Throws a TypeError when the calendar has no term (cal.terms[0] is undefined).
isWithinSchoolYear(d, cal) ==
    /\ getTime(startOfDay(d)) >= getTime(parseLocalDate(cal.terms[1].start))
    /\ getTime(startOfDay(d)) <= getTime(parseLocalDate(cal.terms[Len(cal.terms)].end))

\* The terms that contain d, as indices in file order.
termsAt(d, cal) ==
    SelectSeq([k \in 1..Len(cal.terms) |-> k],
              LAMBDA k : /\ getTime(d) >= getTime(parseLocalDate(cal.terms[k].start))
                         /\ getTime(d) <= getTime(parseLocalDate(cal.terms[k].end)))

firstTermName(cal, found) ==
    IF Len(found) = 0 THEN Undefined ELSE cal.terms[found[1]].name

getCurrentTerm(d, cal) == firstTermName(cal, termsAt(startOfDay(d), cal))

\* The filter of getEventsForDate on a day that is already a start of day.
eventCovers(d, event) ==
    IF event.endDate # Undefined
    THEN /\ getTime(d) >= getTime(parseLocalDate(event.date))
         /\ getTime(d) <= getTime(parseLocalDate(event.endDate))
    ELSE getTime(d) = getTime(parseLocalDate(event.date))

getEventsForDate(d, cal) ==
    SelectSeq(cal.events, LAMBDA event : eventCovers(startOfDay(d), event))

-----------------------------------------------------------------------------
(* SCHOOL CALENDAR PUBLIC API *)

\* Array.prototype.find on the events of the day by type; Undefined when none.
findOfType(events, type) ==
    IF \E k \in 1..Len(events) : events[k].type = type
    THEN events[CHOOSE k \in 1..Len(events) :
                    /\ events[k].type = type
                    /\ \A j \in 1..(k - 1) : events[j].type # type]
    ELSE Undefined

\* Mutant: an early-release event is looked for before a no-school event.
schoolDay_EarlyReleaseFirst(cal, dow, term, noSchool, earlyRelease) ==
    IF earlyRelease # Undefined
    THEN [type |-> "early_release",
          startTime |-> cal.schedule.earlyOutStart,
          endTime |-> cal.schedule.earlyOutEnd,
          eventName |-> earlyRelease.name, term |-> term,
          child |-> cal.school.child, schoolName |-> cal.school.shortName]
    ELSE IF noSchool # Undefined
    THEN [type |-> "no_school", eventName |-> noSchool.name, term |-> term,
          child |-> cal.school.child, schoolName |-> cal.school.shortName]
    ELSE IF DAYS[dow + 1] \in cal.schedule.earlyOutDays
    THEN [type |-> "early_release",
          startTime |-> cal.schedule.earlyOutStart,
          endTime |-> cal.schedule.earlyOutEnd,
          eventName |-> "Weekly early release", term |-> term,
          child |-> cal.school.child, schoolName |-> cal.school.shortName]
    ELSE [type |-> "regular",
          startTime |-> cal.schedule.regularStart,
          endTime |-> cal.schedule.regularEnd,
          term |-> term,
          child |-> cal.school.child, schoolName |-> cal.school.shortName]

\* getSchoolSchedule on a school day of the year: the events of the day, the
\* weekly early-out days, else a regular day.
schoolDay(cal, dow, term, noSchool, earlyRelease) ==
    IF noSchool # Undefined
    THEN [type |-> "no_school", eventName |-> noSchool.name, term |-> term,
          child |-> cal.school.child, schoolName |-> cal.school.shortName]
    ELSE IF earlyRelease # Undefined
    THEN [type |-> "early_release",
          startTime |-> cal.schedule.earlyOutStart,
          endTime |-> cal.schedule.earlyOutEnd,
          eventName |-> earlyRelease.name, term |-> term,
          child |-> cal.school.child, schoolName |-> cal.school.shortName]
    ELSE IF DAYS[dow + 1] \in cal.schedule.earlyOutDays
    THEN [type |-> "early_release",
          startTime |-> cal.schedule.earlyOutStart,
          endTime |-> cal.schedule.earlyOutEnd,
          eventName |-> "Weekly early release", term |-> term,
          child |-> cal.school.child, schoolName |-> cal.school.shortName]
    ELSE [type |-> "regular",
          startTime |-> cal.schedule.regularStart,
          endTime |-> cal.schedule.regularEnd,
          term |-> term,
          child |-> cal.school.child, schoolName |-> cal.school.shortName]

\* getSchoolSchedule once the calendar is known to exist and d is a start of day.
schoolScheduleOn(cal, d, events) ==
    IF ~isWithinSchoolYear(d, cal)
    THEN [type |-> "not_in_session",
          child |-> cal.school.child, schoolName |-> cal.school.shortName]
    ELSE IF getDay(d) = 0 \/ getDay(d) = 6
    THEN [type |-> "not_in_session", term |-> getCurrentTerm(d, cal),
          child |-> cal.school.child, schoolName |-> cal.school.shortName]
    ELSE schoolDay(cal, getDay(d), getCurrentTerm(d, cal),
                   findOfType(events, "no_school"),
                   findOfType(events, "early_release"))

\* The outcome of getSchoolSchedule(date) on the calendar loadSchoolCalendar()
\* returned: null without a calendar, a TypeError without terms.
getSchoolSchedule(cal, dt) ==
    IF cal = Null THEN [threw |-> FALSE, info |-> Null]
    ELSE IF Len(cal.terms) = 0 THEN [threw |-> TRUE]
    ELSE [threw |-> FALSE,
          info  |-> schoolScheduleOn(cal, startOfDay(dt),
                                     getEventsForDate(startOfDay(dt), cal))]

\* isSchoolDay given the outcome of getSchoolSchedule.
schoolDayOf(schedule) ==
    IF schedule.threw THEN [threw |-> TRUE]
    ELSE [threw |-> FALSE,
          schoolDay |-> /\ schedule.info # Null
                        /\ schedule.info.type \in {"regular", "early_release"}]

isSchoolDay(cal, dt) == schoolDayOf(getSchoolSchedule(cal, dt))

\* Math.max(0, n).
MathMax0(n) == IF n > 0 THEN n ELSE 0

\* The tests of the loop of getUpcomingSchoolEvents on one event.
startsInWindow(daysUntil, daysAhead) == daysUntil >= 0 /\ daysUntil <= daysAhead

\* Mutant: an event counts as ongoing whenever it has started.
isOngoing_NeverEnds(event, d) ==
    /\ event.endDate # Undefined
    /\ diffDays(d, parseLocalDate(event.date)) >= 0

isOngoing(event, d) ==
    /\ event.endDate # Undefined
    /\ diffDays(d, parseLocalDate(event.date)) >= 0
    /\ diffDays(parseLocalDate(event.endDate), d) >= 0

\* The entry the loop pushes for an event.
schoolEventEntry(event, daysUntil) ==
    [name      |-> event.name,
     date      |-> parseLocalDate(event.date),
     endDate   |-> IF event.endDate # Undefined THEN parseLocalDate(event.endDate)
                   ELSE Undefined,
     type      |-> event.type,
     daysUntil |-> MathMax0(daysUntil)]

\* The loop of getUpcomingSchoolEvents from event k on, with the entries pushed
\* and the name+date keys seen so far.
RECURSIVE upcomingSchoolFrom(_, _, _, _, _, _)
upcomingSchoolFrom(events, d, daysAhead, k, results, seen) ==
    IF k > Len(events) THEN results
    ELSE IF ~startsInWindow(diffDays(parseLocalDate(events[k].date), d), daysAhead)
            /\ ~isOngoing(events[k], d)
    THEN upcomingSchoolFrom(events, d, daysAhead, k + 1, results, seen)
    ELSE IF <<events[k].name, events[k].date>> \in seen
    THEN upcomingSchoolFrom(events, d, daysAhead, k + 1, results, seen)
    ELSE upcomingSchoolFrom(events, d, daysAhead, k + 1,
                            Append(results,
                                   schoolEventEntry(events[k],
                                       diffDays(parseLocalDate(events[k].date), d))),
                            seen \cup {<<events[k].name, events[k].date>>})

\* The outcome of getUpcomingSchoolEvents(date, daysAhead) on the calendar
\* loadSchoolCalendar() returned.
getUpcomingSchoolEvents(cal, dt, daysAhead) ==
    IF cal = Null THEN <<>>
    ELSE sortByDate(upcomingSchoolFrom(cal.events, startOfDay(dt), daysAhead,
                                       1, <<>>, {}))

-----------------------------------------------------------------------------
(* CONTEXT STRINGS *)
(* A context string is modelled by the sequence of its parts, which the code   *)
(* joins with line breaks: the empty string is the empty sequence.             *)

\* The "SCHOOL TODAY" part of getSchoolContext: none when not in session.
schoolTodayPart(info) ==
    IF info.type = "not_in_session" THEN <<>>
    ELSE <<[part |-> "SCHOOL TODAY", info |-> info]>>

\* The "UPCOMING SCHOOL EVENTS" part: the events after today that are no
\* milestone, none when there is no such event.
schoolFuturePart(future) ==
    IF Len(future) = 0 THEN <<>>
    ELSE <<[part  |-> "UPCOMING SCHOOL EVENTS",
            lines |-> [k \in 1..Len(future) |->
                          [name      |-> future[k].name,
                           daysUntil |-> future[k].daysUntil,
                           on        |-> formatDate(future[k].date)]]]>>

\* getSchoolContext on the outcome of getSchoolSchedule(date).
schoolContextOf(cal, dt, schedule) ==
    IF schedule.threw THEN [threw |-> TRUE]
    ELSE IF schedule.info = Null THEN [threw |-> FALSE, parts |-> <<>>]
    ELSE [threw |-> FALSE,
          parts |-> schoolTodayPart(schedule.info)
                    \o schoolFuturePart(
                           SelectSeq(getUpcomingSchoolEvents(cal, dt, 14),
                                     LAMBDA e : e.daysUntil > 0 /\ e.type # "milestone"))]

getSchoolContext(cal, dt) == schoolContextOf(cal, dt, getSchoolSchedule(cal, dt))

\* The "UPCOMING HOLIDAYS" part of getScheduleContext.
holidaysPart(holidays, now) ==
    IF Len(holidays) = 0 THEN <<>>
    ELSE <<[part  |-> "UPCOMING HOLIDAYS",
            lines |-> [k \in 1..Len(holidays) |->
                          [name      |-> holidays[k].name,
                           daysUntil |-> diffDays(holidays[k].date, startOfDay(now)),
                           on        |-> formatDate(holidays[k].date),
                           whose     |-> holidays[k].parent]]]>>

\* getScheduleContext after loadConfig() succeeded, from the outcomes of the
\* queries it makes in turn; a query that throws ends it.
scheduleContextOf(status, transition, holidays, school, now) ==
    IF status.threw \/ transition.threw THEN [threw |-> TRUE, school |-> FALSE]
    ELSE IF school.threw THEN [threw |-> TRUE, school |-> TRUE]
    ELSE [threw  |-> FALSE,
          school |-> TRUE,
          text   |-> <<[part |-> "CUSTODY STATUS", who |-> status.parent,
                        next |-> transition.description]>>
                     \o holidaysPart(holidays, now)
                     \o school.parts]

\* Mutant: without the try/catch, the error of loadConfig() escapes.
getScheduleContext_NoCatch(cfg, cal, dt) ==
    IF cfg = Missing THEN [threw |-> TRUE, school |-> FALSE]
    ELSE scheduleContextOf(custodyBranch(cfg, dt), getNextTransition(cfg, dt),
                           getUpcomingHolidays(cfg, dt, 30),
                           getSchoolContext(cal, dt), dt)

\* The outcome of getScheduleContext(date): the empty string when loadConfig()
\* throws.  `school` tells whether loadSchoolCalendar() was reached.
getScheduleContext(cfg, cal, dt) ==
    IF cfg = Missing THEN [threw |-> FALSE, school |-> FALSE, text |-> <<>>]
    ELSE scheduleContextOf(custodyBranch(cfg, dt), getNextTransition(cfg, dt),
                           getUpcomingHolidays(cfg, dt, 30),
                           getSchoolContext(cal, dt), dt)

-----------------------------------------------------------------------------
(* Configurations the schedule file may hold *)

HolidayRules(even, odd, always, never) ==
    [evenYearUser |-> even, oddYearUser |-> odd,
     alwaysUser |-> always, alwaysCoparent |-> never]

\* The rotation of Utah Code 81-9-302 with Father's Day / Mother's Day fixed.
StatutoryHolidays ==
    HolidayRules({"MLK Day", "Spring Break", "July 4th", "Labor Day",
                  "Fall Break", "Christmas 1st half"},
                 {"Presidents Day", "Memorial Day", "Pioneer Day",
                  "Thanksgiving", "Christmas 2nd half", "New Year's Day"},
                 {"Father's Day"}, {"Mother's Day"})

\* Lists that overlap in every way the four lists can.
OverlappingHolidays ==
    HolidayRules({"MLK Day", "Spring Break", "Father's Day", "Mother's Day",
                  "Pioneer Day", "Labor Day", "Fall Break", "Thanksgiving"},
                 {"Presidents Day", "Memorial Day", "Father's Day", "July 4th",
                  "Pioneer Day", "Labor Day", "Fall Break", "Christmas 1st half"},
                 {"New Year's Day", "MLK Day", "Presidents Day", "Mother's Day",
                  "July 4th", "Pioneer Day", "Fall Break"},
                 {"New Year's Day", "Spring Break", "Memorial Day", "Mother's Day",
                  "July 4th", "Labor Day", "Fall Break"})

NoHolidays == HolidayRules({}, {}, {}, {})

ScheduleConfig(parent, onPickup, onDropoff, ref, pickup, dropoff, rules) ==
    [weekdayOvernight    |-> [parent |-> parent, pickupDay |-> onPickup,
                              dropoffDay |-> onDropoff],
     alternatingWeekends |-> [referenceDate |-> ref, pickupDay |-> pickup,
                              dropoffDay |-> dropoff],
     holidays            |-> rules]

Parties == {"user", "coparent"}

\* The shape the code documents: weekend Friday..Sunday or a wrapping
\* Saturday..Monday, overnight Wednesday..Thursday.
UsualConfigs ==
    {ScheduleConfig(p, "wednesday", "thursday", ReferenceFriday, w[1], w[2], h) :
        p \in Parties,
        w \in {<<"friday", "sunday">>, <<"saturday", "monday">>},
        h \in {StatutoryHolidays, OverlappingHolidays}}

\* Capitalised day names, an overnight that falls inside the weekend range, and
\* one-day weekend ranges that coincide with the overnight days.
OddConfigs ==
    {ScheduleConfig("user", "Friday", "Monday", ReferenceFriday,
                    "Friday", "Sunday", StatutoryHolidays),
     ScheduleConfig("user", "monday", "monday", ReferenceFriday,
                    "monday", "monday", OverlappingHolidays),
     ScheduleConfig("coparent", "sunday", "sunday", <<2024, 1, 7>>,
                    "sunday", "sunday", NoHolidays)}

Configs == UsualConfigs \cup OddConfigs

\* Every holiday with the user in every year.
UserHolidays ==
    HolidayRules({}, {}, {HolidayNames[i] : i \in 1..Len(HolidayNames)}, {})

\* The documented shape, weekend Friday..Sunday and overnight Wednesday..Thursday,
\* with either overnight parent: holidays all with the user or all with the
\* co-parent and the reference date on a Friday, or holidays rotating and the
\* reference date on a Wednesday.
ScanConfigs ==
    {ScheduleConfig(p, "wednesday", "thursday", ReferenceFriday, "friday", "sunday", h) :
        p \in Parties, h \in {UserHolidays, NoHolidays}}
    \cup {ScheduleConfig(p, "wednesday", "thursday", <<2024, 1, 10>>,
                         "friday", "sunday", StatutoryHolidays) : p \in Parties}

\* Every pickup..dropoff pair of the weekend range.
RangeConfigs ==
    {ScheduleConfig("user", "wednesday", "thursday", ReferenceFriday,
                    DAYS[p], DAYS[q], StatutoryHolidays) :
        p \in 1..Len(DAYS), q \in 1..Len(DAYS)}

\* A file that parses but names a day the code does not know.
InvalidDayConfig ==
    ScheduleConfig("user", "wednesday", "thursday", ReferenceFriday,
                   "fri", "sunday", StatutoryHolidays)

-----------------------------------------------------------------------------
(* Calendars the school file may hold *)

Term(name, start, end) == [name |-> name, start |-> start, end |-> end]

\* An event of one day (no endDate) and an event of a range of days.
DayEvent(type, name, on) ==
    [date |-> on, endDate |-> Undefined, type |-> type, name |-> name]

RangeEvent(type, name, from, to) ==
    [date |-> from, endDate |-> to, type |-> type, name |-> name]

SchoolCalendar(earlyOutDays, terms, events) ==
    [school   |-> [name |-> "Example Elementary", shortName |-> "Example",
                   year |-> "2024-2025", child |-> "Child"],
     schedule |-> [regularStart |-> "08:00", regularEnd |-> "15:00",
                   earlyOutStart |-> "08:00", earlyOutEnd |-> "13:00",
                   earlyOutDays |-> earlyOutDays],
     terms    |-> terms,
     events   |-> events]

\* Two terms with a week between them, early out on Fridays; events on school
\* days, on a weekend, outside the school year, of every type, overlapping each
\* other, and one listed twice.
TwoTermCalendar ==
    SchoolCalendar({"friday"},
        <<Term("Term 1", <<2024, 8, 19>>, <<2024, 10, 11>>),
          Term("Term 2", <<2024, 10, 21>>, <<2024, 12, 20>>)>>,
        <<DayEvent("no_school", "Labor Day", <<2024, 9, 2>>),
          DayEvent("no_school", "Saturday Fair", <<2024, 9, 7>>),
          DayEvent("milestone", "Picture Day", <<2024, 9, 10>>),
          RangeEvent("early_release", "Conferences", <<2024, 9, 25>>, <<2024, 9, 27>>),
          DayEvent("no_school", "Teacher Work Day", <<2024, 9, 27>>),
          DayEvent("milestone", "End of Term 1", <<2024, 10, 11>>),
          DayEvent("milestone", "Labor Day", <<2024, 9, 2>>),
          RangeEvent("no_school", "Thanksgiving Break", <<2024, 11, 27>>, <<2024, 11, 29>>),
          DayEvent("no_school", "Thanksgiving", <<2024, 11, 28>>),
          RangeEvent("no_school", "Winter Break", <<2024, 12, 23>>, <<2025, 1, 3>>)>>)

\* One term, no early-out day; events out of date order, two starting on the
\* same day, and a range across the end of daylight saving time.
OneTermCalendar ==
    SchoolCalendar({},
        <<Term("Fall", <<2024, 8, 26>>, <<2024, 12, 13>>)>>,
        <<RangeEvent("no_school", "Fall Recess", <<2024, 10, 31>>, <<2024, 11, 5>>),
          DayEvent("early_release", "Assembly", <<2024, 9, 11>>),
          DayEvent("milestone", "Science Fair", <<2024, 9, 11>>),
          RangeEvent("milestone", "Book Week", <<2024, 9, 9>>, <<2024, 9, 13>>),
          DayEvent("early_release", "First Day", <<2024, 8, 26>>)>>)

\* One term, early out on Mondays and Wednesdays, no event.
PlainCalendar ==
    SchoolCalendar({"monday", "wednesday"},
        <<Term("Year", <<2024, 9, 3>>, <<2024, 12, 19>>)>>,
        <<>>)

SchoolCalendars == {TwoTermCalendar, OneTermCalendar, PlainCalendar}

TimesOfDay == {0, 1439}

Midnight(days) == [day : days, min : {0}]

\* Number of days of the window of query dates, which opens on 2023-12-25.
WindowDays == 740

WindowStart == DaysFromCivil(2023, 12, 25)

Dates == [day : WindowStart .. (WindowStart + WindowDays), min : TimesOfDay]

\* Number of days of the window the transition queries are asked on.
TransitionDays == 400

TransitionDates ==
    [day : WindowStart .. (WindowStart + TransitionDays), min : TimesOfDay]

\* YearsRange years (of at most 366 days) before and after the reference date.
WideDates ==
    Midnight((DaysFromCivil(2024, 1, 5) - 366 * YearsRange) ..
             (DaysFromCivil(2024, 1, 5) + 366 * YearsRange))

\* Years (of at most 366 days) before and after the reference date on which
\* the look-ahead scan is tried.
ScanYears == 4

ScanDates ==
    Midnight((DaysFromCivil(2024, 1, 5) - 366 * ScanYears) ..
             (DaysFromCivil(2024, 1, 5) + 366 * ScanYears))

\* Number of days of the window the weekend range is classified on.
RangeDays == 20

\* Number of days of the window of the school queries, which opens on
\* 2024-08-12, a week before the first term of the calendars.
SchoolDays == 150

SchoolDates ==
    [day : DaysFromCivil(2024, 8, 12) .. (DaysFromCivil(2024, 8, 12) + SchoolDays),
     min : TimesOfDay]

\* The second argument of getUpcomingSchoolEvents; 14 is its default.
SchoolDaysAhead == {0, 14}

\* What config/schedule.json and config/school-calendar.json may hold while
\* the two files come and go: nothing, or one of two documents.
ScheduleFiles ==
    {Missing,
     ScheduleConfig("user", "wednesday", "thursday", ReferenceFriday,
                    "friday", "sunday", StatutoryHolidays),
     ScheduleConfig("coparent", "wednesday", "thursday", ReferenceFriday,
                    "saturday", "monday", OverlappingHolidays)}

SchoolFiles == {Missing, TwoTermCalendar, PlainCalendar}

\* Number of days of the window of the query sequences, which opens on
\* 2024-09-23.
OverlayDays == 5

OverlayDates ==
    [day : DaysFromCivil(2024, 9, 23) .. (DaysFromCivil(2024, 9, 23) + OverlayDays),
     min : TimesOfDay]

\* The second argument of getUpcomingHolidays; 30 is its default.
DaysAhead == {0, 30, 365, 400}

-----------------------------------------------------------------------------
(* The module as a state machine *)

\* The module right after import, in a process in one of `zones`, with one of
\* `configs` in config/schedule.json and a caller about to query one of `dates`.
InitWith(zones, configs, dates) ==
    /\ tz \in zones
    /\ diskSchedule \in configs
    /\ diskSchool = Missing
    /\ config = Null
    /\ schoolCalConfig = Undefined
    /\ date \in dates
    /\ ret = [op |-> "none"]

\* No call has been made yet.
Fresh == ret.op = "none"

\* A call of an exported query on `date`: loadConfig() runs first and throws when
\* the schedule file is missing; otherwise the body runs and ends as `outcome`,
\* a value or a throw.
Call(op, outcome) ==
    /\ config' = configAfterLoad
    /\ ret' = IF loadConfig = Missing
              THEN [op |-> op, date |-> date, threw |-> TRUE]
              ELSE [op |-> op, date |-> date, threw |-> outcome.threw,
                    value |-> outcome]
    /\ UNCHANGED <<tz, diskSchedule, diskSchool, schoolCalConfig, date>>

IsUserWeekend ==
    Call("isUserWeekend", [threw |-> FALSE, user |-> isUserWeekend(loadConfig, date)])

GetCustodyStatus ==
    Call("getCustodyStatus", custodyBranch(loadConfig, date))

GetNextTransition ==
    Call("getNextTransition", getNextTransition(loadConfig, date))

GetUpcomingHolidays ==
    \E n \in DaysAhead :
        Call("getUpcomingHolidays",
             [threw |-> FALSE, daysAhead |-> n,
              list |-> getUpcomingHolidays(loadConfig, date, n)])

\* One custody query on a freshly imported module.
Init == InitWith(TimeZones, Configs, Dates)

Next ==
    \/ Fresh /\ IsUserWeekend
    \/ Fresh /\ GetCustodyStatus

Spec == Init /\ [][Next]_vars

\* One query about holidays: the status of a day and the upcoming holidays.
InitHolidays ==
    InitWith(TimeZones,
             {ScheduleConfig("user", "wednesday", "thursday", ReferenceFriday,
                             "friday", "sunday", h) :
                 h \in {StatutoryHolidays, OverlappingHolidays, NoHolidays}},
             Midnight(WindowStart .. (WindowStart + WindowDays)))

NextHolidays ==
    \/ Fresh /\ GetCustodyStatus
    \/ Fresh /\ GetUpcomingHolidays

SpecHolidays == InitHolidays /\ [][NextHolidays]_vars

\* One transition query.
InitTransition == InitWith(TimeZones, Configs, TransitionDates)

NextTransition == Fresh /\ GetNextTransition

SpecTransition == InitTransition /\ [][NextTransition]_vars

\* One status query anywhere in YearsRange years around the reference date.
InitWide ==
    InitWith(TimeZones,
             {ScheduleConfig("user", "wednesday", "thursday", ReferenceFriday,
                             "friday", "sunday", StatutoryHolidays),
              InvalidDayConfig},
             WideDates)

NextWide == Fresh /\ GetCustodyStatus

SpecWide == InitWide /\ [][NextWide]_vars

\* One status query under every weekend range.
InitRange ==
    InitWith(TimeZones, RangeConfigs,
             Midnight(DaysFromCivil(2024, 1, 5) .. (DaysFromCivil(2024, 1, 5) + RangeDays)))

NextRange == Fresh /\ GetCustodyStatus

SpecRange == InitRange /\ [][NextRange]_vars

\* One transition query under the documented shape, on any day of ScanYears
\* years around the reference date.
InitScan == InitWith(TimeZones, ScanConfigs, ScanDates)

NextScan == Fresh /\ GetNextTransition

SpecScan == InitScan /\ [][NextScan]_vars

GetWeekSummary ==
    Call("getWeekSummary", getWeekSummary(loadConfig, date))

\* One week summary.
InitWeek == InitWith(TimeZones, Configs, TransitionDates)

NextWeek == Fresh /\ GetWeekSummary

SpecWeek == InitWeek /\ [][NextWeek]_vars

\* The years the calendar helpers are asked about.
CalendarYears == (ReferenceFriday[1] - YearsRange) .. (ReferenceFriday[1] + YearsRange)

\* A call of a helper that reads no module state.
Helper(op, args, value) ==
    /\ ret' = [op |-> op, threw |-> FALSE, args |-> args, value |-> value]
    /\ UNCHANGED <<tz, diskSchedule, diskSchool, config, schoolCalConfig, date>>

NthWeekday ==
    \E year \in CalendarYears, month \in 0..11, weekday \in 0..6, n \in 1..4 :
        Helper("nthWeekday",
               [year |-> year, month |-> month, weekday |-> weekday, n |-> n],
               nthWeekday(year, month, weekday, n))

LastWeekday ==
    \E year \in CalendarYears, month \in 0..11, weekday \in 0..6 :
        Helper("lastWeekday",
               [year |-> year, month |-> month, weekday |-> weekday],
               lastWeekday(year, month, weekday))

\* One call of a floating-holiday helper.
InitCalendar ==
    InitWith(TimeZones,
             {ScheduleConfig("user", "wednesday", "thursday", ReferenceFriday,
                             "friday", "sunday", StatutoryHolidays)},
             Midnight({DaysFromCivil(2024, 1, 5)}))

NextCalendar ==
    \/ Fresh /\ NthWeekday
    \/ Fresh /\ LastWeekday

SpecCalendar == InitCalendar /\ [][NextCalendar]_vars

\* The module right after import with one of `calendars` (or no file) in
\* config/school-calendar.json.
InitSchoolWith(zones, configs, calendars, dates) ==
    /\ tz \in zones
    /\ diskSchedule \in configs
    /\ diskSchool \in calendars
    /\ config = Null
    /\ schoolCalConfig = Undefined
    /\ date \in dates
    /\ ret = [op |-> "none"]

\* A call of an exported school query on `date`: loadSchoolCalendar() runs first
\* and caches what it found; the schedule configuration is not touched.
SchoolCall(op, outcome) ==
    /\ schoolCalConfig' = loadSchoolCalendar
    /\ ret' = [op |-> op, date |-> date, threw |-> outcome.threw, value |-> outcome]
    /\ UNCHANGED <<tz, diskSchedule, diskSchool, config, date>>

GetSchoolSchedule ==
    SchoolCall("getSchoolSchedule", getSchoolSchedule(loadSchoolCalendar, date))

GetUpcomingSchoolEvents ==
    \E n \in SchoolDaysAhead :
        SchoolCall("getUpcomingSchoolEvents",
                   [threw |-> FALSE, daysAhead |-> n,
                    list |-> getUpcomingSchoolEvents(loadSchoolCalendar, date, n)])

IsSchoolDay ==
    SchoolCall("isSchoolDay", isSchoolDay(loadSchoolCalendar, date))

\* One school query with a calendar on disk.
InitSchool ==
    InitSchoolWith(TimeZones,
                   {ScheduleConfig("user", "wednesday", "thursday", ReferenceFriday,
                                   "friday", "sunday", StatutoryHolidays)},
                   SchoolCalendars, SchoolDates)

NextSchool ==
    \/ Fresh /\ GetSchoolSchedule
    \/ Fresh /\ IsSchoolDay
    \/ Fresh /\ GetUpcomingSchoolEvents

SpecSchool == InitSchool /\ [][NextSchool]_vars

\* getScheduleContext(date): loadConfig() inside try/catch, then the custody
\* queries and, when they all returned, the school context, which loads the
\* school calendar.
ContextCall(outcome) ==
    /\ config' = configAfterLoad
    /\ schoolCalConfig' = IF outcome.school THEN loadSchoolCalendar ELSE schoolCalConfig
    /\ ret' = [op |-> "getScheduleContext", date |-> date,
               threw |-> outcome.threw, value |-> outcome]
    /\ UNCHANGED <<tz, diskSchedule, diskSchool, date>>

GetScheduleContext ==
    ContextCall(getScheduleContext(loadConfig, loadSchoolCalendar, date))

\* Any sequence of queries on a module whose two files may each be absent.
InitOverlay == InitSchoolWith(TimeZones, ScheduleFiles, SchoolFiles, OverlayDates)

NextOverlay ==
    \/ GetCustodyStatus
    \/ GetNextTransition
    \/ GetWeekSummary
    \/ GetUpcomingHolidays
    \/ GetScheduleContext
    \/ GetSchoolSchedule
    \/ GetUpcomingSchoolEvents

SpecOverlay == InitOverlay /\ [][NextOverlay]_vars

\* reloadConfig(): both caches are set to null, then loadConfig() reads the
\* schedule file and throws when it is missing.
ReloadConfig ==
    /\ config' = IF diskSchedule = Missing THEN Null ELSE diskSchedule
    /\ schoolCalConfig' = Null
    /\ ret' = [op |-> "reloadConfig", threw |-> diskSchedule = Missing]
    /\ UNCHANGED <<tz, diskSchedule, diskSchool, date>>

\* Somebody writes, replaces or removes one of the two files.
EditSchedule ==
    /\ diskSchedule' \in ScheduleFiles \ {diskSchedule}
    /\ UNCHANGED <<tz, diskSchool, config, schoolCalConfig, date, ret>>

EditSchool ==
    /\ diskSchool' \in SchoolFiles \ {diskSchool}
    /\ UNCHANGED <<tz, diskSchedule, config, schoolCalConfig, date, ret>>

\* Any sequence of queries, reloads and edits of the files.
InitReload ==
    InitSchoolWith({"America/Denver"}, ScheduleFiles, SchoolFiles, OverlayDates)

NextReload ==
    \/ GetCustodyStatus
    \/ GetNextTransition
    \/ GetSchoolSchedule
    \/ GetUpcomingSchoolEvents
    \/ ReloadConfig
    \/ EditSchedule
    \/ EditSchool

SpecReload == InitReload /\ [][NextReload]_vars

-----------------------------------------------------------------------------
(* Vocabulary of the properties *)

\* The call `op` has returned a value.
Returned(op) == ret.op = op /\ ~ret.threw

Day(y, m, d) == DaysFromCivil(y, m, d)

WeekdayOf(day) == (day + 4) % 7

Opposite(party) == IF party = "user" THEN "coparent" ELSE "user"

\* w lies on the walk forward from weekday p to weekday q, wrapping after Saturday.
CyclicIn(w, p, q) == ((w - p) % 7) <= ((q - p) % 7)

\* The priority chain of the holiday lists.
ChainParent(rules, name, year) ==
    IF name \in rules.alwaysUser THEN "user"
    ELSE IF name \in rules.alwaysCoparent THEN "coparent"
    ELSE IF year % 2 = 0
    THEN (IF name \in rules.evenYearUser THEN "user" ELSE "coparent")
    ELSE (IF name \in rules.oddYearUser THEN "user" ELSE "coparent")

\* The holidays (indices into HolidayNames) that fall on a calendar day.
HolidaysOn(day) ==
    {i \in 1..Len(HolidayNames) : holidayDatesOf[civilOf[day].y][i].day = day}

WeekendPickup(cfg) == dayIndex(cfg.alternatingWeekends.pickupDay)
WeekendDropoff(cfg) == dayIndex(cfg.alternatingWeekends.dropoffDay)

InWeekendRange(cfg, day) ==
    CyclicIn(WeekdayOf(day), WeekendPickup(cfg), WeekendDropoff(cfg))

WeekendParty(cfg, day) ==
    IF isUserWeekend(cfg, [day |-> day, min |-> 0]) THEN "user" ELSE "coparent"

ValidDayNames(cfg) ==
    /\ WeekendPickup(cfg) # -1
    /\ WeekendDropoff(cfg) # -1
    /\ dayIndex(cfg.weekdayOvernight.pickupDay) # -1
    /\ dayIndex(cfg.weekdayOvernight.dropoffDay) # -1

\* The rule chain holiday -> weekend range -> overnight -> default on a calendar day.
ChainStatus(cfg, day) ==
    IF HolidaysOn(day) # {}
    THEN ChainParent(cfg.holidays,
                     HolidayNames[CHOOSE i \in HolidaysOn(day) :
                                      \A j \in HolidaysOn(day) : i <= j],
                     civilOf[day].y)
    ELSE IF InWeekendRange(cfg, day) THEN WeekendParty(cfg, day)
    ELSE IF WeekdayOf(day) \in {dayIndex(cfg.weekdayOvernight.pickupDay),
                                dayIndex(cfg.weekdayOvernight.dropoffDay)}
    THEN cfg.weekdayOvernight.parent
    ELSE Opposite(cfg.weekdayOvernight.parent)

-----------------------------------------------------------------------------
(* Properties of getCustodyStatus and isUserWeekend *)

\* C1: under a configuration with valid weekday names, getCustodyStatus(d) is the
\* first matching rule of the chain holiday -> weekend range -> overnight ->
\* default, evaluated on the calendar day of d whatever its time of day.
C1_StatusIsFirstMatchingRule ==
    (Returned("getCustodyStatus") /\ ValidDayNames(config))
        => ret.value.parent = ChainStatus(config, ret.date.day)

\* C1 witness: a query late in the day on a weekend day that is also the
\* overnight pickup day, answered by the weekend rule.
C1_Witness ==
    /\ Returned("getCustodyStatus")
    /\ ret.date.min > 0
    /\ ret.value.rule = "weekend"
    /\ WeekdayOf(ret.date.day) = dayIndex(config.weekdayOvernight.pickupDay)
    /\ ret.value.parent # config.weekdayOvernight.parent

\* C2: a holiday inside the weekend range that is assigned to the party opposite
\* to the weekend's gets the holiday's party.
C2_HolidayOverridesWeekend ==
    (/\ Returned("getCustodyStatus")
     /\ ValidDayNames(config)
     /\ InWeekendRange(config, ret.date.day)
     /\ \E i \in HolidaysOn(ret.date.day) :
            ChainParent(config.holidays, HolidayNames[i], civilOf[ret.date.day].y)
                # WeekendParty(config, ret.date.day))
        => \E i \in HolidaysOn(ret.date.day) :
              ret.value.parent =
                  ChainParent(config.holidays, HolidayNames[i], civilOf[ret.date.day].y)

\* C2 witness: such a holiday has been queried.
C2_Witness ==
    /\ Returned("getCustodyStatus")
    /\ InWeekendRange(config, ret.date.day)
    /\ HolidaysOn(ret.date.day) # {}
    /\ ret.value.parent # WeekendParty(config, ret.date.day)

\* C3 as claimed: once a configuration is loaded, getCustodyStatus returns one
\* of the two parties for every date of YearsRange years around the reference
\* date and never throws.
C3_TotalOnceLoaded ==
    (ret.op = "getCustodyStatus" /\ config # Null)
        => (~ret.threw /\ ret.value.parent \in Parties)

\* Totality where the day names are valid (what remains of C3).
TotalWhenNamesValid ==
    (ret.op = "getCustodyStatus" /\ config # Null /\ ValidDayNames(config))
        => (~ret.threw /\ ret.value.parent \in Parties)

\* C4 as claimed: isUserWeekend(d) iff floor(days / 7) is even, days being the
\* whole-day difference between d and the configured reference date.
C4_ParityFromReferenceDate ==
    Returned("isUserWeekend")
        => LET ref  == config.alternatingWeekends.referenceDate
               days == ret.date.day - Day(ref[1], ref[2], ref[3])
           IN  ret.value.user = ((days \div 7) % 2 = 0)

\* C5: reference date 2024-01-05 and a Friday..Sunday weekend give user on
\* 2024-01-05, coparent on 2024-01-12 and coparent on 2023-12-29.
C5_ParityExample ==
    (/\ Returned("getCustodyStatus")
     /\ config.alternatingWeekends.referenceDate = <<2024, 1, 5>>
     /\ WeekendPickup(config) = 5
     /\ WeekendDropoff(config) = 0)
        => /\ ret.date.day = Day(2024, 1, 5) => ret.value.parent = "user"
           /\ ret.date.day = Day(2024, 1, 12) => ret.value.parent = "coparent"
           /\ ret.date.day = Day(2023, 12, 29) => ret.value.parent = "coparent"

\* C5 witness: the Friday one alternation before the reference date was queried
\* in a zone west of Greenwich.
C5_Witness ==
    /\ Returned("getCustodyStatus")
    /\ tz = "America/Denver"
    /\ config.alternatingWeekends.referenceDate = <<2024, 1, 5>>
    /\ WeekendPickup(config) = 5
    /\ WeekendDropoff(config) = 0
    /\ ret.date.day = Day(2023, 12, 29)
    /\ ret.value.rule = "weekend"

\* C6: the weekend range is the cyclic interval from the pickup weekday p to
\* the dropoff weekday q: a day that is no holiday is classified as a weekend
\* day iff (w - p) mod 7 <= (q - p) mod 7.
C6_WeekendRangeIsCyclic ==
    (Returned("getCustodyStatus") /\ ret.value.rule # "holiday")
        => ((ret.value.rule = "weekend")
              <=> (((WeekdayOf(ret.date.day) - WeekendPickup(config)) % 7)
                     <= ((WeekendDropoff(config) - WeekendPickup(config)) % 7)))

\* C6 witness: under the wrapping range Saturday..Monday a Sunday was
\* classified as a weekend day.
C6_Witness ==
    /\ Returned("getCustodyStatus")
    /\ WeekendPickup(config) = 6
    /\ WeekendDropoff(config) = 1
    /\ WeekdayOf(ret.date.day) = 0
    /\ ret.value.rule = "weekend"

-----------------------------------------------------------------------------
(* Properties of the holiday assignment *)

\* C7: the parent assigned to a holiday follows the strict priority chain
\* alwaysUser, alwaysCoparent, then the list of the year's parity, both where
\* getCustodyStatus answers on a holiday and in every entry of
\* getUpcomingHolidays.
C7_HolidayPriorityChain ==
    /\ (Returned("getCustodyStatus") /\ ret.value.rule = "holiday")
          => \E i \in HolidaysOn(ret.date.day) :
                ret.value.parent =
                    ChainParent(config.holidays, HolidayNames[i], civilOf[ret.date.day].y)
    /\ Returned("getUpcomingHolidays")
          => \A k \in 1..Len(ret.value.list) :
                ret.value.list[k].parent =
                    ChainParent(config.holidays, ret.value.list[k].name,
                                civilOf[ret.value.list[k].date.day].y)

\* C7 witness: a holiday listed in alwaysCoparent and in evenYearUser was
\* asked about in an even year and went to the coparent.
C7_Witness ==
    /\ Returned("getCustodyStatus")
    /\ ret.value.rule = "holiday"
    /\ civilOf[ret.date.day].y % 2 = 0
    /\ \E i \in HolidaysOn(ret.date.day) :
          /\ HolidayNames[i] \in config.holidays.alwaysCoparent
          /\ HolidayNames[i] \in config.holidays.evenYearUser
          /\ HolidayNames[i] \notin config.holidays.alwaysUser
    /\ ret.value.parent = "coparent"

\* A holiday of the rotation: in evenYearUser and in neither always-list.
Rotating(rules, name) ==
    /\ name \in rules.evenYearUser
    /\ name \notin rules.alwaysUser
    /\ name \notin rules.alwaysCoparent

\* C8 as claimed: a holiday in evenYearUser and in neither always-list goes to
\* the user in an even year and to the coparent in an odd year.
C8_RotationAsClaimed ==
    (Returned("getCustodyStatus") /\ ret.value.rule = "holiday")
        => \A i \in HolidaysOn(ret.date.day) :
              Rotating(config.holidays, HolidayNames[i])
                  => ret.value.parent =
                        (IF civilOf[ret.date.day].y % 2 = 0 THEN "user" ELSE "coparent")

\* C8 amended: a holiday in evenYearUser, in neither always-list and not in
\* oddYearUser goes to the user in an even year and to the coparent in an odd
\* year.
C8_RotationWhenNotInOddList ==
    (Returned("getCustodyStatus") /\ ret.value.rule = "holiday")
        => \A i \in HolidaysOn(ret.date.day) :
              (/\ Rotating(config.holidays, HolidayNames[i])
               /\ HolidayNames[i] \notin config.holidays.oddYearUser)
                  => ret.value.parent =
                        (IF civilOf[ret.date.day].y % 2 = 0 THEN "user" ELSE "coparent")

\* C8 witness: such a holiday was asked about in the odd year 2025 and went to
\* the coparent.
C8_Witness ==
    /\ Returned("getCustodyStatus")
    /\ ret.value.rule = "holiday"
    /\ civilOf[ret.date.day].y = 2025
    /\ \E i \in HolidaysOn(ret.date.day) :
          /\ Rotating(config.holidays, HolidayNames[i])
          /\ HolidayNames[i] \notin config.holidays.oddYearUser
    /\ ret.value.parent = "coparent"

-----------------------------------------------------------------------------
(* Properties of getNextTransition *)

StatusOn(day) == getCustodyStatus(config, [day |-> day, min |-> 0])

\* The result came from the fallback after the loop.
FromFallback == ret.value.description.text = "Next weekend"

\* Some day of d+1 .. d+LookAhead has another status than `status`.
ChangesWithin(day, status) == \E j \in 1..LookAhead : StatusOn(day + j) # status

\* C9: the date getNextTransition returns is strictly after its argument, and
\* unless the result is the fallback, the status on that date differs from the
\* status on the argument.
C9_TransitionIsLaterAndDiffers ==
    Returned("getNextTransition")
        => /\ getTime(ret.value.date) > getTime(ret.date)
           /\ ~FromFallback
                 => getCustodyStatus(config, ret.value.date)
                        # getCustodyStatus(config, ret.date)

\* C9 witness: a transition found by the scan for a query late in the day, on
\* a day whose status comes from a holiday.
C9_Witness ==
    /\ Returned("getNextTransition")
    /\ ret.date.min > 0
    /\ ~FromFallback
    /\ HolidaysOn(ret.value.date.day) # {}
    /\ ret.value.date.day > ret.date.day + 1

\* C10: getNextTransition returns the first day of d+1 .. d+14 whose status
\* differs from d's, described by the party that gains the children; when no
\* such day exists it returns the next pickup weekday of the weekend range,
\* 1 to 7 days after d, labelled as the next weekend.
FirstDifferingDayOrNextWeekend(d, k, status, text) ==
    IF ChangesWithin(d, status)
    THEN /\ k \in 1..LookAhead
         /\ StatusOn(d + k) # status
         /\ \A j \in 1..(k - 1) : StatusOn(d + j) = status
         /\ text = (IF StatusOn(d + k) = "user" THEN "Children come to you"
                    ELSE "Children go to co-parent")
         /\ ret.value.description.on.day = civilOf[d + k].d
    ELSE /\ k \in 1..7
         /\ WeekdayOf(d + k) = WeekendPickup(config)
         /\ text = "Next weekend"

C10_FirstDifferingDayOrNextWeekend ==
    Returned("getNextTransition")
        => FirstDifferingDayOrNextWeekend(ret.date.day,
                                          ret.value.date.day - ret.date.day,
                                          StatusOn(ret.date.day),
                                          ret.value.description.text)

\* C10 witness: no day of the next 14 differs and the fallback answered on the
\* pickup weekday itself, seven days ahead.
C10_Witness ==
    /\ Returned("getNextTransition")
    /\ FromFallback
    /\ ret.value.date.day = ret.date.day + 7

-----------------------------------------------------------------------------
(* Properties of getWeekSummary *)

\* The annotations the claim gives a day: "pickup" when its party differs from
\* the previous day's, "drop-off" when it differs from the next day's.
ClaimedNotes(status, prevStatus, nextStatus) ==
    (IF status # prevStatus THEN {"pickup"} ELSE {})
        \cup (IF status # nextStatus THEN {"drop-off"} ELSE {})

\* The annotations a line of the summary carries.
NotesOf(line) == IF line.note = "" THEN {} ELSE {line.note}

\* C11: getWeekSummary(d) has exactly 7 entries, for d .. d+6 in order, each with
\* that day's party, annotated "pickup" iff the party differs from the previous
\* day's and "drop-off" iff it differs from the next day's (both on a one-day
\* window between different parties).
C11_WeekSummaryAsClaimed ==
    (Returned("getWeekSummary") /\ ValidDayNames(config))
        => /\ Len(ret.value.lines) = 7
           /\ \A k \in 1..7 :
                /\ ret.value.lines[k].weekday = WeekdayOf(ret.date.day + k - 1)
                /\ ret.value.lines[k].who = StatusOn(ret.date.day + k - 1)
                /\ NotesOf(ret.value.lines[k])
                       = ClaimedNotes(StatusOn(ret.date.day + k - 1),
                                      StatusOn(ret.date.day + k - 2),
                                      StatusOn(ret.date.day + k))

\* The summary apart from the one-day window: seven entries in order with the
\* day's party, and the single note the code writes.
WeekSummaryWithOneNote ==
    (Returned("getWeekSummary") /\ ValidDayNames(config))
        => /\ Len(ret.value.lines) = 7
           /\ \A k \in 1..7 :
                /\ ret.value.lines[k].weekday = WeekdayOf(ret.date.day + k - 1)
                /\ ret.value.lines[k].who = StatusOn(ret.date.day + k - 1)
                /\ LET notes == ClaimedNotes(StatusOn(ret.date.day + k - 1),
                                             StatusOn(ret.date.day + k - 2),
                                             StatusOn(ret.date.day + k))
                   IN  NotesOf(ret.value.lines[k])
                           = (IF "pickup" \in notes THEN {"pickup"} ELSE notes)

-----------------------------------------------------------------------------
(* Properties of getUpcomingHolidays *)

\* The holiday occurrences <<year, index>> of the year of `day` and of the next
\* year that fall on day .. day + n.
OccurrencesWithin(day, n) ==
    {o \in {civilOf[day].y, civilOf[day].y + 1} \X (1..Len(HolidayNames)) :
        /\ holidayDatesOf[o[1]][o[2]].day - day >= 0
        /\ holidayDatesOf[o[1]][o[2]].day - day <= n}

\* The list holds exactly the occurrences, each with the parent of its own year,
\* in ascending order of date.
ListsExactly(list, occurrences, rules) ==
    /\ Len(list) = Cardinality(occurrences)
    /\ \A o \in occurrences :
          \E k \in 1..Len(list) :
              /\ list[k].name = HolidayNames[o[2]]
              /\ list[k].date = holidayDatesOf[o[1]][o[2]]
              /\ list[k].parent = ChainParent(rules, HolidayNames[o[2]], o[1])
    /\ \A k \in 1..(Len(list) - 1) : list[k].date.day <= list[k + 1].date.day

\* C12: getUpcomingHolidays(d, n) is exactly the holiday occurrences of d's year
\* and the next whose date h has 0 <= h - d <= n in whole days, each with the
\* parent of the holiday's own year, sorted ascending by date.
C12_UpcomingHolidaysExact ==
    Returned("getUpcomingHolidays")
        => ListsExactly(ret.value.list,
                        OccurrencesWithin(ret.date.day, ret.value.daysAhead),
                        config.holidays)

\* C12 witness: a 30-day list that opens with a holiday on the day of the query
\* and runs into the next year.
C12_Witness ==
    /\ Returned("getUpcomingHolidays")
    /\ ret.value.daysAhead = 30
    /\ Len(ret.value.list) >= 3
    /\ ret.value.list[1].date.day = ret.date.day
    /\ civilOf[ret.value.list[Len(ret.value.list)].date.day].y
          = civilOf[ret.date.day].y + 1

-----------------------------------------------------------------------------
(* Properties of nthWeekday and lastWeekday *)

\* The number of days of a month (1-based) of a year.
DaysInMonth(y, m) ==
    IF m = 2 THEN (IF (y % 4 = 0 /\ y % 100 # 0) \/ y % 400 = 0 THEN 29 ELSE 28)
    ELSE IF m \in {4, 6, 9, 11} THEN 30 ELSE 31

\* The date lies in the month asked for and falls on the weekday asked for.
InMonthOnWeekday(result, args) ==
    /\ CivilFromDays(result.day).y = args.year
    /\ CivilFromDays(result.day).m = args.month + 1
    /\ WeekdayOf(result.day) = args.weekday
    /\ result.min = 0

\* C13: for every year, month, weekday w and n in 1..4, nthWeekday returns a date
\* of that month on weekday w whose day of month lies in 7(n-1)+1 .. 7n; the 3rd
\* Monday of January 2024 is 2024-01-15.
C13_NthWeekdayInItsWeek ==
    Returned("nthWeekday")
        => /\ InMonthOnWeekday(ret.value, ret.args)
           /\ CivilFromDays(ret.value.day).d \in
                  (7 * (ret.args.n - 1) + 1) .. (7 * ret.args.n)
           /\ (ret.args = [year |-> 2024, month |-> 0, weekday |-> 1, n |-> 3]
                  => CivilFromDays(ret.value.day) = [y |-> 2024, m |-> 1, d |-> 15])

\* C13 witness: the 3rd Monday of January 2024, a month that starts on a Monday.
C13_Witness ==
    /\ Returned("nthWeekday")
    /\ ret.args = [year |-> 2024, month |-> 0, weekday |-> 1, n |-> 3]
    /\ ret.value.day = 19737

\* C14: for every year, month and weekday w, lastWeekday returns a date of that
\* month on weekday w within the last 7 days of the month; the last Monday of
\* May 2024 is 2024-05-27.
C14_LastWeekdayInLastWeek ==
    Returned("lastWeekday")
        => /\ InMonthOnWeekday(ret.value, ret.args)
           /\ CivilFromDays(ret.value.day).d
                  > DaysInMonth(ret.args.year, ret.args.month + 1) - 7
           /\ (ret.args = [year |-> 2024, month |-> 4, weekday |-> 1]
                  => CivilFromDays(ret.value.day) = [y |-> 2024, m |-> 5, d |-> 27])

\* C14 witness: the last Thursday of February of a leap year is the 29th.
C14_Witness ==
    /\ Returned("lastWeekday")
    /\ ret.args = [year |-> 2024, month |-> 1, weekday |-> 4]
    /\ CivilFromDays(ret.value.day) = [y |-> 2024, m |-> 2, d |-> 29]

-----------------------------------------------------------------------------
(* Properties of the school calendar overlay *)

\* The calendar day an ISO date names.
DayOf(iso) == DaysFromCivil(iso[1], iso[2], iso[3])

\* The event covers the day: its single date, or its inclusive range.
Covers(event, day) ==
    IF event.endDate = Undefined THEN day = DayOf(event.date)
    ELSE DayOf(event.date) <= day /\ day <= DayOf(event.endDate)

\* The name of the first event of a type that covers the day, in file order.
FirstCovering(cal, type, day) ==
    cal.events[CHOOSE k \in 1..Len(cal.events) :
                  /\ cal.events[k].type = type /\ Covers(cal.events[k], day)
                  /\ \A j \in 1..(k - 1) :
                        ~(cal.events[j].type = type /\ Covers(cal.events[j], day))].name

SomeCovering(cal, type, day) ==
    \E k \in 1..Len(cal.events) :
        cal.events[k].type = type /\ Covers(cal.events[k], day)

\* The name of the first term that contains the day, Undefined when none does.
TermOn(cal, day) ==
    IF \E k \in 1..Len(cal.terms) :
           DayOf(cal.terms[k].start) <= day /\ day <= DayOf(cal.terms[k].end)
    THEN cal.terms[CHOOSE k \in 1..Len(cal.terms) :
                      /\ DayOf(cal.terms[k].start) <= day /\ day <= DayOf(cal.terms[k].end)
                      /\ \A j \in 1..(k - 1) :
                            ~(DayOf(cal.terms[j].start) <= day
                              /\ day <= DayOf(cal.terms[j].end))].name
    ELSE Undefined

EarlyOutTimes(cal, info) ==
    /\ info.startTime = cal.schedule.earlyOutStart
    /\ info.endTime = cal.schedule.earlyOutEnd

\* The order of getSchoolSchedule, first match wins.
FollowsSchoolOrder(cal, day, info) ==
    IF day < DayOf(cal.terms[1].start) \/ day > DayOf(cal.terms[Len(cal.terms)].end)
    THEN info.type = "not_in_session"
    ELSE IF WeekdayOf(day) \in {0, 6}
    THEN info.type = "not_in_session" /\ info.term = TermOn(cal, day)
    ELSE IF SomeCovering(cal, "no_school", day)
    THEN info.type = "no_school"
         /\ info.eventName = FirstCovering(cal, "no_school", day)
    ELSE IF SomeCovering(cal, "early_release", day)
    THEN info.type = "early_release" /\ EarlyOutTimes(cal, info)
         /\ info.eventName = FirstCovering(cal, "early_release", day)
    ELSE IF DAYS[WeekdayOf(day) + 1] \in cal.schedule.earlyOutDays
    THEN info.type = "early_release" /\ EarlyOutTimes(cal, info)
         /\ info.eventName = "Weekly early release"
    ELSE /\ info.type = "regular"
         /\ info.startTime = cal.schedule.regularStart
         /\ info.endTime = cal.schedule.regularEnd

\* C15: with a school calendar loaded, getSchoolSchedule(d) follows the order
\* outside the school year, weekend (term reported), no_school event,
\* early_release event, weekly early-out day, regular day; first match wins and
\* milestone events never change the type.
C15_SchoolScheduleOrder ==
    (Returned("getSchoolSchedule") /\ diskSchool # Missing)
        => /\ ret.value.info # Null
           /\ FollowsSchoolOrder(diskSchool, ret.date.day, ret.value.info)

\* C15 witness: a Friday that is an early-out day, inside an early-release range
\* and on a no-school day, reported as no school.
C15_Witness ==
    /\ Returned("getSchoolSchedule")
    /\ diskSchool # Missing
    /\ ret.value.info.type = "no_school"
    /\ SomeCovering(diskSchool, "early_release", ret.date.day)
    /\ DAYS[WeekdayOf(ret.date.day) + 1] \in diskSchool.schedule.earlyOutDays
    /\ ret.date.min > 0

\* An event qualifies on day d for a window of n days: it starts in d .. d + n,
\* or it has a range that contains d.
Qualifies(event, d, n) ==
    \/ (DayOf(event.date) >= d /\ DayOf(event.date) <= d + n)
    \/ (event.endDate # Undefined
          /\ DayOf(event.date) <= d /\ d <= DayOf(event.endDate))

QualifyingKeys(cal, d, n) ==
    {<<cal.events[k].name, cal.events[k].date>> :
        k \in {j \in 1..Len(cal.events) : Qualifies(cal.events[j], d, n)}}

\* The list holds one entry per qualifying name+date pair and nothing else,
\* ascending by start date, daysUntil floored at 0, nothing that ended before d.
ListsEvents(list, keys, d) ==
    /\ Len(list) = Cardinality(keys)
    /\ \A key \in keys :
          \E k \in 1..Len(list) :
              list[k].name = key[1] /\ list[k].date.day = DayOf(key[2])
    /\ \A k \in 1..(Len(list) - 1) : list[k].date.day <= list[k + 1].date.day
    /\ \A k \in 1..Len(list) :
          /\ list[k].daysUntil = (IF list[k].date.day - d > 0
                                   THEN list[k].date.day - d ELSE 0)
          /\ list[k].endDate = Undefined => list[k].date.day >= d
          /\ list[k].endDate # Undefined => list[k].endDate.day >= d

\* C16: getUpcomingSchoolEvents(d, n) is exactly the events that start in
\* [d, d+n] or are ongoing on d, one entry per (name, start date), ascending by
\* start date, daysUntil = max(0, start - d); no event that ended before d.
C16_UpcomingSchoolEventsExact ==
    (Returned("getUpcomingSchoolEvents") /\ diskSchool # Missing)
        => ListsEvents(ret.value.list,
                       QualifyingKeys(diskSchool, ret.date.day, ret.value.daysAhead),
                       ret.date.day)

\* C16 witness: a list with an event that began before the day of the query
\* and is still ongoing, followed by a later one, from a calendar that lists a
\* name+date pair twice inside the window.
C16_Witness ==
    /\ Returned("getUpcomingSchoolEvents")
    /\ diskSchool # Missing
    /\ Len(ret.value.list) >= 2
    /\ ret.value.list[1].date.day < ret.date.day
    /\ ret.value.list[1].daysUntil = 0
    /\ ret.value.list[2].daysUntil > 0

\* The deduplication is exercised: a name+date pair the calendar lists twice
\* qualifies for the list.
DuplicateListedOnce ==
    /\ Returned("getUpcomingSchoolEvents")
    /\ diskSchool # Missing
    /\ \E i, j \in 1..Len(diskSchool.events) :
          /\ i < j
          /\ diskSchool.events[i].name = diskSchool.events[j].name
          /\ diskSchool.events[i].date = diskSchool.events[j].date
          /\ Qualifies(diskSchool.events[i], ret.date.day, ret.value.daysAhead)

\* The answer of the custody query `op` computed from the schedule file and the
\* date alone, with no reference to the school calendar or to either cache.
CustodyAnswer(op, dt, value) ==
    CASE op = "getCustodyStatus" -> custodyBranch(diskSchedule, dt)
      [] op = "getNextTransition" -> getNextTransition(diskSchedule, dt)
      [] op = "getUpcomingHolidays" ->
            [threw |-> FALSE, daysAhead |-> value.daysAhead,
             list |-> getUpcomingHolidays(diskSchedule, dt, value.daysAhead)]

\* C17: school overlay independence.  Whatever school calendar file exists and
\* whatever school queries ran before, getCustodyStatus, getNextTransition and
\* getUpcomingHolidays answer what the schedule file and the date determine
\* (and throw exactly when there is no schedule file), and the cached schedule
\* configuration is never anything but that file.
C17_SchoolOverlayIndependence ==
    /\ config \in {Null, diskSchedule}
    /\ ret.op \in {"getCustodyStatus", "getNextTransition", "getUpcomingHolidays"}
          => /\ ret.threw = (diskSchedule = Missing)
             /\ ~ret.threw => ret.value = CustodyAnswer(ret.op, ret.date, ret.value)

\* C17 witness: a custody status returned after a school query has loaded a
\* school calendar that exists.
C17_Witness ==
    /\ Returned("getCustodyStatus")
    /\ diskSchool # Missing
    /\ schoolCalConfig = diskSchool

CustodyQueries ==
    {"getCustodyStatus", "getNextTransition", "getWeekSummary", "getUpcomingHolidays"}

\* C18: the two files are independently optional.  Without a school calendar
\* file getSchoolSchedule returns null, getUpcomingSchoolEvents returns the
\* empty list, neither throws, and the custody queries answer when the schedule
\* file exists; without a schedule file every custody query throws while
\* getScheduleContext returns the empty string.
C18_IndependentlyOptional ==
    /\ diskSchool = Missing
          => /\ ret.op = "getSchoolSchedule"
                => ~ret.threw /\ ret.value.info = Null
             /\ ret.op = "getUpcomingSchoolEvents"
                => ~ret.threw /\ ret.value.list = <<>>
             /\ (ret.op \in CustodyQueries /\ diskSchedule # Missing)
                => ~ret.threw
    /\ diskSchedule = Missing
          => /\ ret.op \in CustodyQueries => ret.threw
             /\ ret.op = "getScheduleContext"
                => ~ret.threw /\ ret.value.text = <<>>

\* C18 witness: getScheduleContext returned the empty string for want of a
\* schedule file, after a school query found no school calendar file either.
C18_Witness ==
    /\ ret.op = "getScheduleContext"
    /\ diskSchedule = Missing
    /\ ret.value.text = <<>>
    /\ diskSchool = Missing
    /\ schoolCalConfig = Null

\* The other half of C18 is exercised: a week summary returned with no school
\* calendar file.
WeekSummaryWithoutSchoolFile ==
    /\ Returned("getWeekSummary")
    /\ diskSchool = Missing
    /\ schoolCalConfig = Null

\* What a school query made in the current state would report for `date`.
SchoolScheduleNow == getSchoolSchedule(loadSchoolCalendar, date)

\* What the school calendar file, as it is on disk, gives for `date`.
SchoolScheduleOnDisk ==
    getSchoolSchedule(IF diskSchool = Missing THEN Null ELSE diskSchool, date)

\* C19: reloadConfig() invalidates and reloads both caches.  After any
\* sequence of queries and edits, a reloadConfig() that returns leaves the
\* schedule file of that moment as the configuration the custody queries use,
\* and whether it returns or throws the next school query reports the school
\* calendar file of that moment: a file that exists is not treated as absent.
C19_ReloadReloadsBoth ==
    [][ReloadConfig
           => /\ ~ret'.threw => (config' = diskSchedule /\ loadConfig' = diskSchedule)
              /\ SchoolScheduleNow' = SchoolScheduleOnDisk]_vars

\* The schedule half of C19 alone: after reloadConfig() the custody queries
\* use the schedule file as it is at the reload, until the next reload.
ReloadReloadsSchedule ==
    [][/\ ReloadConfig => (~ret'.threw => loadConfig' = diskSchedule)
       /\ (config # Null /\ ~ReloadConfig) => config' = config]_vars

\* The school half fails this way: a school query that follows reloadConfig()
\* answers null although a school calendar file exists.
SchoolCalendarLostByReload ==
    /\ Returned("getSchoolSchedule")
    /\ ret.value.info = Null
    /\ diskSchool # Missing
    /\ SchoolScheduleOnDisk.info # Null

\* C20: a failed load is latched.  Once a custody query or a reloadConfig()
\* has thrown for want of a schedule file, every custody query throws until a
\* reloadConfig() returns; queries made after that reload return.
C20_FailureLatchedUntilReload ==
    [][/\ (/\ ret.op \in CustodyQueries \cup {"reloadConfig"}
           /\ ret.threw
           /\ config = Null
           /\ ret'.op \in CustodyQueries)
          => ret'.threw
       /\ (/\ ret.op = "reloadConfig"
           /\ ~ret.threw
           /\ ret'.op \in CustodyQueries)
          => ~ret'.threw]_vars

\* What holds of C20: after a failed load the custody queries throw for as long
\* as the schedule file is missing, and return after a reloadConfig() that
\* returned.
FailsWhileScheduleFileMissing ==
    [][/\ (/\ ret.op \in CustodyQueries \cup {"reloadConfig"}
           /\ ret.threw
           /\ config = Null
           /\ diskSchedule = Missing
           /\ ret'.op \in CustodyQueries)
          => ret'.threw
       /\ (/\ ret.op = "reloadConfig"
           /\ ~ret.threw
           /\ ret'.op \in CustodyQueries)
          => ~ret'.threw]_vars

-----------------------------------------------------------------------------
(* Properties of configuration loading *)

\* C21 as claimed: a schedule file with a weekday string that is no day name
\* fails to load, so no configuration is ever cached from it and no
\* getCustodyStatus call returns a party under it.
C21_InvalidDayNameFailsLoad ==
    (diskSchedule # Missing /\ ~ValidDayNames(diskSchedule))
        => /\ config = Null
           /\ ret.op = "getCustodyStatus" => ret.threw

\* How C21 fails: under a loaded configuration with an invalid weekday name a
\* holiday is answered with a party, the day names never being looked at.
PartyDespiteInvalidDayName ==
    /\ Returned("getCustodyStatus")
    /\ ~ValidDayNames(config)
    /\ ret.value.rule = "holiday"
    /\ ret.value.parent \in Parties

C23_ReloadIsAtomic ==
    [][(ReloadConfig /\ config # Null)
           => /\ config' \in {config, diskSchedule} \ {Missing}
              /\ loadConfig' # Missing]_vars

\* How C23 fails: reloadConfig() has thrown and left no configuration where
\* one was cached, so getCustodyStatus throws until the file is back.
CacheEmptiedByFailedReload ==
    /\ ret.op = "reloadConfig"
    /\ ret.threw
    /\ config = Null
    /\ loadConfig = Missing

\* The step is a second call of the query that returned last, with the same
\* arguments, the files having possibly been edited in between.
SameCallAgain ==
    /\ ret.op \in CustodyQueries \cup {"getSchoolSchedule", "getUpcomingSchoolEvents"}
    /\ \/ GetCustodyStatus
       \/ GetNextTransition
       \/ GetSchoolSchedule
       \/ GetUpcomingSchoolEvents
    /\ ret'.op = ret.op
    /\ ret'.date = ret.date
    /\ ret.op = "getUpcomingSchoolEvents"
          => ret'.value.daysAhead = ret.value.daysAhead

\* C24 as claimed: idempotence.  Two consecutive calls of a query with the
\* same arguments and no reloadConfig() between them end the same way, same
\* value or both throwing, whatever was done to the files between them.
C24_Idempotence ==
    [][SameCallAgain => ret' = ret]_vars

\* What holds of C24: the second call ends as the first did when the first
\* returned, and always for the school queries.
IdempotentOnceLoaded ==
    [][(SameCallAgain /\ ~ret.threw) => ret' = ret]_vars

\* The second call is exercised on edited files: it repeats an answer that the
\* schedule file of the moment would not give.
RepeatedAnswerFromCache ==
    /\ Returned("getNextTransition")
    /\ diskSchedule # Missing
    /\ config # diskSchedule
    /\ ret.value # getNextTransition(diskSchedule, ret.date)

-----------------------------------------------------------------------------
(* Properties of the holiday dates *)

\* The holiday dates of `year` are fourteen different calendar days of `year`.
DistinctDaysOfYear(dates, year) ==
    /\ Len(dates) = 14
    /\ \A i \in 1..Len(dates) : civilOf[dates[i].day].y = year
    /\ \A i, j \in 1..Len(dates) : i # j => dates[i].day # dates[j].day

\* C25: for the year of every queried date the fourteen dates of
\* getUtahHolidayDates are pairwise distinct days of that year, and
\* getHolidayAssignmentsForDate finds at most one holiday on the date
\* getCustodyStatus hands it, so the first-in-iteration-order tie-break decides
\* nothing.
C25_HolidayDatesDistinct ==
    ret.op = "getCustodyStatus"
        => /\ DistinctDaysOfYear(getUtahHolidayDates(civilOf[ret.date.day].y),
                                 civilOf[ret.date.day].y)
           /\ Len(getHolidayAssignmentsForDate(config, startOfDay(ret.date))) <= 1

\* C25 witness: a status taken from the one holiday found on the date, the day
\* between the two halves of Christmas having none.
C25_Witness ==
    /\ Returned("getCustodyStatus")
    /\ ret.value.rule = "holiday"
    /\ Len(getHolidayAssignmentsForDate(config, startOfDay(ret.date))) = 1
    /\ getHolidayAssignmentsForDate(config, startOfDay(ret.date))[1].name
           = "Christmas 2nd half"
    /\ getHolidayAssignmentsForDate(config, addDays(startOfDay(ret.date), -1)) = <<>>

\* The date getUtahHolidayDates gives the holiday `name` in `year`.
HolidayDateOf(name, year) ==
    holidayDatesOf[year][CHOOSE i \in 1..Len(HolidayNames) : HolidayNames[i] = name]

\* C26: the two copies of the holiday resolver agree.  Every entry h of
\* getUpcomingHolidays(d, daysAhead) carries the party getCustodyStatus(h.date)
\* returns, and h.date is the date of h.name in the year of h.date.
C26_ResolverCopiesAgree ==
    Returned("getUpcomingHolidays")
        => \A i \in 1..Len(ret.value.list) :
              /\ getCustodyStatus(config, ret.value.list[i].date)
                     = ret.value.list[i].parent
              /\ ret.value.list[i].date
                     = HolidayDateOf(ret.value.list[i].name,
                                     getFullYear(ret.value.list[i].date))

\* C26 witness: a list that runs over New Year, with entries of an even and of
\* an odd year and of both parties.
C26_Witness ==
    /\ Returned("getUpcomingHolidays")
    /\ \E i, j \in 1..Len(ret.value.list) :
          /\ getFullYear(ret.value.list[i].date) % 2 = 0
          /\ getFullYear(ret.value.list[j].date) % 2 = 1
          /\ ret.value.list[i].parent = "user"
          /\ ret.value.list[j].parent = "coparent"
          /\ ret.value.list[i].name = ret.value.list[j].name

-----------------------------------------------------------------------------
(* Properties of the weekend alternation across time zones *)

\* The configured reference date as a calendar day.
ReferenceDay(cfg) ==
    Day(cfg.alternatingWeekends.referenceDate[1],
        cfg.alternatingWeekends.referenceDate[2],
        cfg.alternatingWeekends.referenceDate[3])

\* The first day of the pickup..dropoff run that `day` belongs to, the pickup
\* weekday being that of the reference date.
RunStart(cfg, day) == day - ((day - ReferenceDay(cfg)) % 7)

\* The party of the run that starts on referenceDate + 7n: user for even n.
RunParty(cfg, day) ==
    IF ((RunStart(cfg, day) - ReferenceDay(cfg)) \div 7) % 2 = 0
    THEN "user" ELSE "coparent"

\* C27 as claimed: with the reference date on the pickup weekday no weekend is
\* split.  In every time zone and for every length 1..7 of the range, a day
\* of the range that is no holiday has the party of its run: user for the run
\* that starts on referenceDate + 14k, coparent for the one that starts on
\* referenceDate + 7 + 14k.
C27_WeekendNeverSplit ==
    (/\ Returned("getCustodyStatus")
     /\ WeekdayOf(ReferenceDay(config)) = WeekendPickup(config)
     /\ ret.value.rule = "weekend")
        => ret.value.parent = RunParty(config, ret.date.day)

\* What holds of C27: no weekend is split where the process runs at UTC or
\* east of it, nor where the run is shorter than a week.
WeekendWholeUnlessShifted ==
    (/\ Returned("getCustodyStatus")
     /\ WeekdayOf(ReferenceDay(config)) = WeekendPickup(config)
     /\ ret.value.rule = "weekend"
     /\ \/ StdOffset(tz) >= 0
        \/ (WeekendDropoff(config) - WeekendPickup(config)) % 7 < 6)
        => ret.value.parent = RunParty(config, ret.date.day)

\* How C27 fails: west of UTC the last day of a seven-day run that began on
\* the reference date is given to the other party.
WeekendSplitWestOfUtc ==
    /\ Returned("getCustodyStatus")
    /\ StdOffset(tz) < 0
    /\ WeekendPickup(config) = 5
    /\ WeekendDropoff(config) = 4
    /\ ret.date.day = ReferenceDay(config) + 6
    /\ ret.value.rule = "weekend"
    /\ ret.value.parent = "coparent"

-----------------------------------------------------------------------------
(* Properties of the look-ahead scan *)

\* C28: with weekend Friday..Sunday and overnight Wednesday..Thursday, whatever
\* the reference date, the overnight parent and the holiday lists, the scan of
\* getNextTransition finds a differing day: the fallback does not answer, and
\* the date returned is 1 to 14 days after d with another status than d's.
C28_FallbackUnreachable ==
    Returned("getNextTransition")
        => /\ ~FromFallback
           /\ ret.value.date.day - ret.date.day \in 1..LookAhead
           /\ StatusOn(ret.value.date.day) # StatusOn(ret.date.day)

\* C28 witness: the scan had to pass a whole week of one status, which a
\* holiday prolonged, before it found the differing day.
C28_Witness ==
    /\ Returned("getNextTransition")
    /\ ~FromFallback
    /\ ret.value.date.day - ret.date.day >= 7
    /\ \E j \in 1..6 : HolidaysOn(ret.date.day + j) # {}

-----------------------------------------------------------------------------
(* Properties of the two-year scan of getUpcomingHolidays *)

\* The years a holiday within a year of `day` could belong to.
YearsAround(day) == (civilOf[day].y - 1) .. (civilOf[day].y + 2)

\* C29: scanning the year of d and the next is complete for windows of up to
\* 365 days.  Every holiday of any year that falls on d .. d + daysAhead is in
\* getUpcomingHolidays(d, daysAhead), and no name is listed twice for one year.
C29_TwoYearScanComplete ==
    (Returned("getUpcomingHolidays") /\ ret.value.daysAhead <= 365)
        => /\ \A y \in YearsAround(ret.date.day), i \in 1..Len(HolidayNames) :
                 (/\ holidayDatesOf[y][i].day >= ret.date.day
                  /\ holidayDatesOf[y][i].day <= ret.date.day + ret.value.daysAhead)
                     => \E k \in 1..Len(ret.value.list) :
                           /\ ret.value.list[k].name = HolidayNames[i]
                           /\ ret.value.list[k].date = holidayDatesOf[y][i]
           /\ \A k, l \in 1..Len(ret.value.list) :
                 (/\ k # l
                  /\ ret.value.list[k].name = ret.value.list[l].name)
                     => getFullYear(ret.value.list[k].date)
                            # getFullYear(ret.value.list[l].date)

\* C29 witness: a window of 365 days that opens on 1 January and closes on the
\* next 1 January, with New Year's Day of both years in the list.
C29_Witness ==
    /\ Returned("getUpcomingHolidays")
    /\ ret.value.daysAhead = 365
    /\ Len(ret.value.list) = 15
    /\ ret.value.list[1].name = "New Year's Day"
    /\ ret.value.list[15].name = "New Year's Day"
    /\ ret.value.list[1].date.day = ret.date.day
    /\ ret.value.list[15].date.day = ret.date.day + 365

\* The bound of 365 days is sharp: a window of 400 days reaches a holiday of
\* the year after next, which the scan leaves out.
YearAfterNextLeftOut ==
    /\ Returned("getUpcomingHolidays")
    /\ ret.value.daysAhead = 400
    /\ \E i \in 1..Len(HolidayNames) :
          /\ holidayDatesOf[civilOf[ret.date.day].y + 2][i].day
                 <= ret.date.day + 400
          /\ \A k \in 1..Len(ret.value.list) :
                ret.value.list[k].date # holidayDatesOf[civilOf[ret.date.day].y + 2][i]

-----------------------------------------------------------------------------
(* Properties of the school day *)

\* The query reported a school day: getSchoolSchedule gave regular or
\* early_release, or isSchoolDay gave true.
ReportedSchoolDay ==
    \/ /\ Returned("getSchoolSchedule")
       /\ ret.value.info # Null
       /\ ret.value.info.type \in {"regular", "early_release"}
    \/ /\ Returned("isSchoolDay")
       /\ ret.value.schoolDay

\* The day lies from the first term's start to the last term's end.
InSchoolYearSpan(cal, day) ==
    /\ DayOf(cal.terms[1].start) <= day
    /\ day <= DayOf(cal.terms[Len(cal.terms)].end)

\* The day lies inside the k-th term.
InTerm(cal, k, day) ==
    DayOf(cal.terms[k].start) <= day /\ day <= DayOf(cal.terms[k].end)

\* C30 as claimed: a reported school day is a Monday-to-Friday date inside one
\* of the terms, and the term getSchoolSchedule reports is defined, being the
\* name of a term that contains the day, gaps between terms or not.
C30_SchoolDayInsideTerm ==
    ReportedSchoolDay
        => /\ WeekdayOf(ret.date.day) \in 1..5
           /\ \E k \in 1..Len(diskSchool.terms) : InTerm(diskSchool, k, ret.date.day)
           /\ ret.op = "getSchoolSchedule"
                 => \E k \in 1..Len(diskSchool.terms) :
                       /\ InTerm(diskSchool, k, ret.date.day)
                       /\ ret.value.info.term = diskSchool.terms[k].name

\* C30 amended: a reported school day is a Monday-to-Friday date from the first
\* term's start to the last term's end; the reported term is the name of the
\* first term that contains the day, and undefined on the days between terms.
C30_SchoolDayInsideSpan ==
    ReportedSchoolDay
        => /\ WeekdayOf(ret.date.day) \in 1..5
           /\ InSchoolYearSpan(diskSchool, ret.date.day)
           /\ ret.op = "getSchoolSchedule"
                 => IF \E k \in 1..Len(diskSchool.terms) :
                          InTerm(diskSchool, k, ret.date.day)
                    THEN ret.value.info.term
                           = diskSchool.terms[CHOOSE k \in 1..Len(diskSchool.terms) :
                                 /\ InTerm(diskSchool, k, ret.date.day)
                                 /\ \A j \in 1..(k - 1) :
                                       ~InTerm(diskSchool, j, ret.date.day)].name
                    ELSE ret.value.info.term = Undefined

\* C30 witness: a regular school day reported with no term, on a weekday of the
\* week between two terms.
C30_Witness ==
    /\ Returned("getSchoolSchedule")
    /\ ret.value.info.type = "regular"
    /\ Len(diskSchool.terms) = 2
    /\ ret.date.day > DayOf(diskSchool.terms[1].end)
    /\ ret.date.day < DayOf(diskSchool.terms[2].start)
    /\ ret.value.info.term = Undefined

====
